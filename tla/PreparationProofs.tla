------------------------- MODULE PreparationProofs -------------------------
(***************************************************************************)
(* Proofs about Preparation: the single use of an approval, the finality of*)
(* a revocation, that every effect is approved, that a complete clean-up is*)
(* complete, that a prepared set stays whole while nobody tampers, and that*)
(* a clean-up takes only what is its own, for any number of executions,    *)
(* revocations, approvals and files.                                       *)
(***************************************************************************)
EXTENDS Preparation, FiniteSetTheorems, WellFoundedInduction, TLAPS

Running == {"make", "open", "create", "announce", "fill"}
Early == {"idle", "checked", "verified"}
Late == {"inspect", "files", "cleanup", "remove", "unlink", "rmdir", "returned"}

\* The part of TypeOK the other conjuncts rest on.
Types ==
  /\ nonce \in [Runs \cup Revokers -> Nonces]
  /\ terminal \in [Nonces -> {"none", "burnt", "consumed", "revoked"}]
  /\ destDir \in Makers \cup {"absent", "link"}
  /\ file \in [Files -> Makers \cup {"none"}]
  /\ worker \in [Runs -> WorkerPoints]
  /\ workerDir \in [Runs -> Makers \cup {"none"}]
  /\ pc \in [Runs \cup Revokers -> Points]
  /\ ready \subseteq Runs
  /\ result \in [Runs \cup Revokers -> {"none", "prepared", "denied", "revoked"}]
  /\ cleanup \in [Runs -> {"complete", "preserved"}]

\* A revocation that was reported is in the ledger.
Revoked ==
  \A v \in Revokers : result[v] = "revoked" => terminal[nonce[v]] = "revoked"

\* Only a worker that was let go is past its wait.
Held == \A r \in Runs : worker[r] \in Running => r \in ready

\* What is at the destination was made by a worker that was let go.
Made ==
  \A r \in Runs : destDir = r \/ (\E f \in Files : file[f] = r) =>
    r \in ready /\ worker[r] # "none"

\* Where an execution is tells whether it has a worker.
Stages ==
  \A r \in Runs : /\ pc[r] \in Early => worker[r] = "none"
                  /\ pc[r] \in Late => worker[r] \in {"none", "dead"}
                  /\ result[r] # "none" => pc[r] = "returned"

\* Files are in a directory, and a worker creates them in one it opened.
Placed ==
  /\ destDir \notin Makers => \A f \in Files : file[f] = "none"
  /\ \A r \in Runs : worker[r] \in {"create", "announce", "fill"} =>
       workerDir[r] \in Makers

IInv == /\ Types /\ SingleUse /\ Revoked /\ Held /\ Made /\ Stages /\ Placed
        /\ DeniedLeavesNothing

-----------------------------------------------------------------------------
(* The steps, grouped by what they touch.                                   *)

\* Steps that change neither the ledger nor the destination nor a worker.
Quiet(r) ==
  \/ CheckDestination(r) \/ Verify(r) \/ DropLine(r) \/ ReadValid(r)
  \/ ReadDir(r) \/ ReadFile(r) \/ ReadDone(r) \/ Abort(r) \/ Close(r)
  \/ InspectDir(r) \/ InspectFile(r) \/ Prepared(r)
  \/ CleanupUnrecorded(r) \/ CleanupOpen(r) \/ CleanupCheck(r)
  \/ CleanupEmpty(r) \/ Crash(r)

Removal(r) == CleanupUnlink(r) \/ CleanupRemoveDir(r)

WorkerOnly(r) ==
  \/ WorkerReady(r) \/ WorkerValid(r) \/ WorkerDir(r) \/ WorkerAnnounce(r)
  \/ WorkerFill(r) \/ WorkerDone(r) \/ WorkerFails(r) \/ WorkerKilled(r)

Revoking(v) == RevokerVerify(v) \/ Revoke(v)

USE DEF Goto, Finish, Preserve, Kill, Turn, Says, Reads,
        ledger, destination, workers, protocol, outcome, history

\* Next, regrouped.
LEMMA Regroup ==
  ASSUME Next
  PROVE \/ \E r \in Runs : \/ Quiet(r) \/ Spawn(r) \/ ReadReady(r)
                           \/ Removal(r) \/ WorkerOnly(r) \/ WorkerMkdir(r)
                           \/ WorkerCreate(r)
        \/ \E v \in Revokers : Revoking(v)
        \/ Meddle
<1>1. QED
  BY DEF Next, Execute, Work, Quiet, Removal, WorkerOnly, Revoking

LEMMA Initially ==
  ASSUME Init
  PROVE IInv
<1>1. Types
  <2>1. nonce \in [Runs \cup Revokers -> Nonces] /\ ready \subseteq Runs
    BY PreparationAssumption DEF Init
  <2>2. terminal \in [Nonces -> {"none", "burnt", "consumed", "revoked"}]
    BY DEF Init
  <2>3. destDir \in Makers \cup {"absent", "link"}
    BY DEF Init, Makers
  <2>4. file \in [Files -> Makers \cup {"none"}]
    BY DEF Init
  <2>5. worker \in [Runs -> WorkerPoints]
    BY DEF Init, WorkerPoints
  <2>6. workerDir \in [Runs -> Makers \cup {"none"}]
    BY DEF Init
  <2>7. pc \in [Runs \cup Revokers -> Points]
    BY DEF Init, Points
  <2>8. /\ result \in [Runs \cup Revokers -> {"none", "prepared", "denied", "revoked"}]
        /\ cleanup \in [Runs -> {"complete", "preserved"}]
    BY DEF Init
  <2>9. QED
    BY <2>1, <2>2, <2>3, <2>4, <2>5, <2>6, <2>7, <2>8 DEF Types
<1>2. SingleUse /\ Revoked /\ Held
  BY PreparationAssumption
  DEF Init, SingleUse, Revoked, Held, Running
<1>3. Made /\ Stages /\ Placed
  BY PreparationAssumption
  DEF Init, Made, Stages, Placed, Early, Late, Makers
<1>4. DeniedLeavesNothing
  BY DEF Init, DeniedLeavesNothing
<1>5. QED
  BY <1>1, <1>2, <1>3, <1>4 DEF IInv

LEMMA QuietStep ==
  ASSUME IInv, NEW r \in Runs, Quiet(r)
  PROVE IInv'
<1>1. UNCHANGED <<nonce, terminal, destDir, file, worker, workerDir>>
  BY DEF Quiet, CheckDestination, Verify, DropLine, ReadValid, ReadDir,
     ReadFile, ReadDone, Abort, Close, InspectDir, InspectFile, Prepared,
     CleanupUnrecorded, CleanupOpen, CleanupCheck, CleanupEmpty, Crash
<1>2. UNCHANGED ready
  BY DEF Quiet, CheckDestination, Verify, DropLine, ReadValid, ReadDir,
     ReadFile, ReadDone, Abort, Close, InspectDir, InspectFile, Prepared,
     CleanupUnrecorded, CleanupOpen, CleanupCheck, CleanupEmpty, Crash
<1>3. /\ pc' \in [Runs \cup Revokers -> Points]
      /\ result' \in [Runs \cup Revokers -> {"none", "prepared", "denied", "revoked"}]
      /\ cleanup' \in [Runs -> {"complete", "preserved"}]
  BY DEF IInv, Types, Points, Quiet, CheckDestination, Verify, DropLine,
     ReadValid, ReadDir, ReadFile, ReadDone, Abort, Close, InspectDir,
     InspectFile, Prepared, CleanupUnrecorded, CleanupOpen, CleanupCheck,
     CleanupEmpty, Crash
<1>4. /\ \A q \in Runs \cup Revokers : q # r =>
           pc'[q] = pc[q] /\ result'[q] = result[q]
      /\ \A q \in Runs : q # r => cleanup'[q] = cleanup[q]
  BY DEF IInv, Types, Quiet, CheckDestination, Verify, DropLine,
     ReadValid, ReadDir, ReadFile, ReadDone, Abort, Close, InspectDir,
     InspectFile, Prepared, CleanupUnrecorded, CleanupOpen, CleanupCheck,
     CleanupEmpty, Crash
<1>5. /\ pc'[r] \in Early => pc[r] \in Early
      /\ pc'[r] \in Late => pc[r] \in Late \/ worker[r] = "none" \/ worker[r] = "dead"
      /\ result'[r] # "none" => pc'[r] = "returned"
  BY DEF IInv, Types, Stages, Early, Late, Gone, Quiet, CheckDestination,
     Verify, DropLine, ReadValid, ReadDir, ReadFile, ReadDone, Abort,
     Close, InspectDir, InspectFile, Prepared, CleanupUnrecorded,
     CleanupOpen, CleanupCheck, CleanupEmpty, Crash
<1>6. result'[r] = "denied" /\ cleanup'[r] = "complete" =>
        \/ result[r] = "denied" /\ cleanup[r] = "complete"
        \/ destDir = "absent" /\ pc[r] = "cleanup"
        \/ pc[r] = "idle"
  BY DEF IInv, Types, Quiet, CheckDestination, Verify, DropLine,
     ReadValid, ReadDir, ReadFile, ReadDone, Abort, Close, InspectDir,
     InspectFile, Prepared, CleanupUnrecorded, CleanupOpen, CleanupCheck,
     CleanupEmpty, Crash
<1>7. Types'
  BY <1>1, <1>2, <1>3 DEF IInv, Types
<1>8. SingleUse' /\ Held' /\ Made' /\ Placed'
  BY <1>1, <1>2 DEF IInv, SingleUse, Held, Made, Placed
<1>9. Revoked'
  BY <1>1, <1>4, PreparationAssumption DEF IInv, Revoked
<1>10. Stages'
  BY <1>1, <1>4, <1>5 DEF IInv, Stages, Early, Late
<1>11. DeniedLeavesNothing'
  <2>1. SUFFICES ASSUME NEW q \in Runs, result'[q] = "denied", cleanup'[q] = "complete"
                 PROVE destDir # q /\ (\A f \in Files : file[f] # q) /\ ~Alive(q)
    BY <1>1 DEF DeniedLeavesNothing, Alive
  <2>2. CASE result[q] = "denied" /\ cleanup[q] = "complete"
    BY <2>2 DEF IInv, DeniedLeavesNothing
  <2>3. CASE q = r /\ pc[r] = "idle"
    BY <2>3 DEF IInv, Stages, Early, Made, Alive
  <2>4. CASE q = r /\ destDir = "absent" /\ pc[r] = "cleanup"
    BY <2>4, PreparationAssumption DEF IInv, Stages, Late, Placed, Makers, Alive
  <2>5. QED
    BY <1>4, <1>6, <2>1, <2>2, <2>3, <2>4
<1>12. QED
  BY <1>7, <1>8, <1>9, <1>10, <1>11 DEF IInv

LEMMA SpawnStep ==
  ASSUME IInv, NEW r \in Runs, Spawn(r)
  PROVE IInv'
<1>1. UNCHANGED <<nonce, terminal, destDir, file, workerDir, ready, result, cleanup>>
  BY DEF Spawn
<1>2. Types'
  BY <1>1 DEF IInv, Types, Spawn, Points, WorkerPoints
<1>3. SingleUse' /\ Revoked'
  BY <1>1 DEF IInv, SingleUse, Revoked
<1>4. Held' /\ Made' /\ Placed'
  BY <1>1 DEF IInv, Types, Held, Running, Made, Placed, Spawn
<1>5. Stages' /\ DeniedLeavesNothing'
  BY <1>1
  DEF IInv, Types, Stages, Early, Late, DeniedLeavesNothing, Alive, Spawn
<1>6. QED
  BY <1>2, <1>3, <1>4, <1>5 DEF IInv

LEMMA WorkerStep ==
  ASSUME IInv, NEW r \in Runs, WorkerOnly(r)
  PROVE IInv'
<1>1. UNCHANGED <<nonce, terminal, destDir, file, ready, pc, result, cleanup>>
  BY DEF WorkerOnly, WorkerReady, WorkerValid, WorkerDir, WorkerAnnounce,
     WorkerFill, WorkerDone, WorkerFails, WorkerKilled, LetGo, Alive
<1>2. worker' = [worker EXCEPT ![r] = worker'[r]] /\ worker'[r] \in WorkerPoints
  BY DEF IInv, Types, WorkerPoints, WorkerOnly, WorkerReady, WorkerValid,
     WorkerDir, WorkerAnnounce, WorkerFill, WorkerDone, WorkerFails,
     WorkerKilled, LetGo, Alive
<1>3. /\ worker[r] \notin {"none", "dead"} /\ worker'[r] # "none"
      /\ worker'[r] \in Running => worker[r] \in Running \/ r \in ready
  BY DEF IInv, Types, Running, WorkerOnly, WorkerReady, WorkerValid,
     WorkerDir, WorkerAnnounce, WorkerFill, WorkerDone, WorkerFails,
     WorkerKilled, LetGo, Alive
<1>4. /\ workerDir' \in [Runs -> Makers \cup {"none"}]
      /\ \A q \in Runs : q # r => workerDir'[q] = workerDir[q]
      /\ worker'[r] \in {"create", "announce", "fill"} => workerDir'[r] \in Makers
  BY DEF IInv, Types, Placed, WorkerOnly, WorkerReady, WorkerValid,
     WorkerDir, WorkerAnnounce, WorkerFill, WorkerDone, WorkerFails,
     WorkerKilled, LetGo, Alive
<1>5. Types'
  BY <1>1, <1>2, <1>4 DEF IInv, Types
<1>6. SingleUse' /\ Revoked'
  BY <1>1 DEF IInv, SingleUse, Revoked
<1>7. Held' /\ Made'
  BY <1>1, <1>2, <1>3 DEF IInv, Types, Held, Made
<1>8. Stages' /\ DeniedLeavesNothing'
  BY <1>1, <1>2, <1>3
  DEF IInv, Types, Stages, Early, Late, DeniedLeavesNothing, Alive
<1>9. Placed'
  BY <1>1, <1>2, <1>4 DEF IInv, Types, Placed
<1>10. QED
  BY <1>5, <1>6, <1>7, <1>8, <1>9 DEF IInv

\* The exclusive creation: an approval without a terminal gets one.
LEMMA MarkStep ==
  ASSUME IInv, NEW p \in Runs \cup Revokers, NEW event \in {"consumed", "revoked"},
         Mark(p, event)
  PROVE /\ terminal[nonce[p]] = "none" /\ terminal'[nonce[p]] = event
        /\ \A n \in Nonces : terminal[n] # "none" => terminal'[n] = terminal[n]
        /\ terminal' \in [Nonces -> {"none", "burnt", "consumed", "revoked"}]
<1>1. QED
  BY DEF IInv, Types, Mark, Usable

LEMMA MarkRefusedStep ==
  ASSUME IInv, NEW p \in Runs \cup Revokers, MarkRefused(p)
  PROVE /\ \A n \in Nonces : terminal[n] # "none" => terminal'[n] = terminal[n]
        /\ terminal' \in [Nonces -> {"none", "burnt", "consumed", "revoked"}]
<1>1. QED
  BY DEF IInv, Types, MarkRefused, Usable

LEMMA ReadReadyStep ==
  ASSUME IInv, NEW r \in Runs, ReadReady(r)
  PROVE IInv'
<1>1. UNCHANGED <<nonce, destDir, file, worker, workerDir, pc, result, cleanup>>
  BY DEF ReadReady
<1>2. /\ \A n \in Nonces : terminal[n] # "none" => terminal'[n] = terminal[n]
      /\ terminal' \in [Nonces -> {"none", "burnt", "consumed", "revoked"}]
  BY MarkStep, MarkRefusedStep DEF ReadReady, Consume, IInv, Types
<1>3. \/ ready' = ready
      \/ /\ ready' = ready \cup {r}
         /\ terminal[nonce[r]] = "none" /\ terminal'[nonce[r]] = "consumed"
  BY MarkStep DEF ReadReady, Consume
<1>4. Types'
  BY <1>1, <1>2, <1>3 DEF IInv, Types
<1>5. SingleUse'
  BY <1>1, <1>2, <1>3 DEF IInv, Types, SingleUse
<1>6. Revoked'
  BY <1>1, <1>2 DEF IInv, Types, Revoked
<1>7. Held' /\ Made' /\ Placed'
  BY <1>1, <1>3 DEF IInv, Held, Made, Placed
<1>8. Stages' /\ DeniedLeavesNothing'
  BY <1>1 DEF IInv, Stages, DeniedLeavesNothing, Alive
<1>9. QED
  BY <1>4, <1>5, <1>6, <1>7, <1>8 DEF IInv

LEMMA RevokingStep ==
  ASSUME IInv, NEW v \in Revokers, Revoking(v)
  PROVE IInv'
<1>1. UNCHANGED <<nonce, destDir, file, worker, workerDir, ready, cleanup>>
  BY DEF Revoking, RevokerVerify, Revoke
<1>2. /\ \A n \in Nonces : terminal[n] # "none" => terminal'[n] = terminal[n]
      /\ terminal' \in [Nonces -> {"none", "burnt", "consumed", "revoked"}]
  BY MarkStep, MarkRefusedStep
  DEF Revoking, RevokerVerify, Revoke, IInv, Types
<1>3. result'[v] = "revoked" => result[v] = "revoked" \/ terminal'[nonce[v]] = "revoked"
  BY MarkStep DEF Revoking, RevokerVerify, Revoke, IInv, Types
<1>4. /\ pc' \in [Runs \cup Revokers -> Points]
      /\ result' \in [Runs \cup Revokers -> {"none", "prepared", "denied", "revoked"}]
      /\ \A q \in Runs \cup Revokers : q # v =>
           pc'[q] = pc[q] /\ result'[q] = result[q]
  BY DEF Revoking, RevokerVerify, Revoke, IInv, Types, Points
<1>5. \A q \in Runs : pc'[q] = pc[q] /\ result'[q] = result[q]
  BY <1>4, PreparationAssumption
<1>6. Types'
  BY <1>1, <1>2, <1>4 DEF IInv, Types
<1>7. SingleUse'
  BY <1>1, <1>2 DEF IInv, Types, SingleUse
<1>8. Revoked'
  BY <1>1, <1>2, <1>3, <1>4 DEF IInv, Types, Revoked
<1>9. Held' /\ Made' /\ Placed'
  BY <1>1 DEF IInv, Held, Made, Placed
<1>10. Stages' /\ DeniedLeavesNothing'
  BY <1>1, <1>5 DEF IInv, Stages, DeniedLeavesNothing, Alive
<1>11. QED
  BY <1>6, <1>7, <1>8, <1>9, <1>10 DEF IInv

LEMMA RemovalStep ==
  ASSUME IInv, NEW r \in Runs, Removal(r)
  PROVE IInv'
<1>1. UNCHANGED <<nonce, terminal, worker, workerDir, ready>>
  BY DEF Removal, CleanupUnlink, CleanupRemoveDir
<1>2. /\ destDir' = destDir \/ (destDir' = "absent" /\ \A f \in Files : file[f] = "none")
      /\ file' \in [Files -> Makers \cup {"none"}]
      /\ \A f \in Files : file'[f] \in {file[f], "none"}
  BY DEF Removal, CleanupUnlink, CleanupRemoveDir, IInv, Types
<1>3. /\ pc' \in [Runs \cup Revokers -> Points]
      /\ result' \in [Runs \cup Revokers -> {"none", "prepared", "denied", "revoked"}]
      /\ cleanup' \in [Runs -> {"complete", "preserved"}]
  BY DEF Removal, CleanupUnlink, CleanupRemoveDir, IInv, Types, Points
<1>4. /\ \A q \in Runs \cup Revokers : q # r =>
           pc'[q] = pc[q] /\ result'[q] = result[q]
      /\ \A q \in Runs : q # r => cleanup'[q] = cleanup[q]
  BY DEF Removal, CleanupUnlink, CleanupRemoveDir, IInv, Types
<1>5. /\ pc[r] \in {"unlink", "rmdir"} /\ pc'[r] \in {"remove", "returned"}
      /\ result'[r] # "none" => pc'[r] = "returned"
  BY DEF Removal, CleanupUnlink, CleanupRemoveDir, IInv, Types, Stages
<1>6. result'[r] = "denied" /\ cleanup'[r] = "complete" =>
        destDir' = "absent" /\ (\A f \in Files : file[f] = "none" /\ file'[f] = "none")
  BY <1>2, <1>5
  DEF Removal, CleanupUnlink, CleanupRemoveDir, IInv, Types, Stages
<1>7. Types'
  BY <1>1, <1>2, <1>3 DEF IInv, Types
<1>8. SingleUse' /\ Held'
  BY <1>1 DEF IInv, SingleUse, Held
<1>9. Revoked'
  BY <1>1, <1>4, PreparationAssumption DEF IInv, Revoked
<1>10. Made' /\ Placed'
  BY <1>1, <1>2, PreparationAssumption DEF IInv, Made, Placed, Makers
<1>11. Stages'
  BY <1>1, <1>4, <1>5 DEF IInv, Stages, Early, Late
<1>12. DeniedLeavesNothing'
  <2>1. SUFFICES ASSUME NEW q \in Runs, result'[q] = "denied", cleanup'[q] = "complete"
                 PROVE destDir' # q /\ (\A f \in Files : file'[f] # q) /\ ~Alive(q)
    BY <1>1 DEF DeniedLeavesNothing, Alive
  <2>2. CASE q = r
    BY <2>1, <2>2, <1>5, <1>6, PreparationAssumption
    DEF IInv, Stages, Late, Makers, Alive
  <2>3. CASE q # r
    BY <2>1, <2>3, <1>2, <1>4, PreparationAssumption
    DEF IInv, DeniedLeavesNothing, Makers, Alive
  <2>4. QED
    BY <2>2, <2>3
<1>13. QED
  BY <1>7, <1>8, <1>9, <1>10, <1>11, <1>12 DEF IInv

\* The two steps of a worker that make something at the destination.
LEMMA MakeStep ==
  ASSUME IInv, NEW r \in Runs, WorkerMkdir(r) \/ WorkerCreate(r)
  PROVE IInv'
<1>1. UNCHANGED <<nonce, terminal, workerDir, ready, pc, result, cleanup>>
  BY DEF WorkerMkdir, WorkerCreate
<1>2. /\ worker' = [worker EXCEPT ![r] = worker'[r]]
      /\ worker[r] \in {"make", "create"} /\ worker'[r] \in {"open", "announce"}
      /\ worker'[r] = "announce" => worker[r] = "create"
  BY DEF WorkerMkdir, WorkerCreate, IInv, Types
<1>3. /\ destDir' \in {destDir, r}
      /\ file' \in [Files -> Makers \cup {"none"}]
      /\ \A f \in Files : file'[f] \in {file[f], "none", r}
  BY DEF WorkerMkdir, WorkerCreate, MakeDir, IInv, Types, Makers
<1>4. destDir' \notin Makers => file' = file /\ destDir' = destDir
  BY DEF WorkerMkdir, WorkerCreate, MakeDir, IInv, Placed, Makers
<1>5. Types'
  BY <1>1, <1>2, <1>3 DEF IInv, Types, WorkerPoints, Makers
<1>6. SingleUse' /\ Revoked'
  BY <1>1 DEF IInv, SingleUse, Revoked
<1>7. Held'
  BY <1>1, <1>2 DEF IInv, Types, Held, Running
<1>8. Made'
  BY <1>1, <1>2, <1>3, PreparationAssumption
  DEF IInv, Types, Made, Held, Running, Makers
<1>9. Stages'
  BY <1>1, <1>2 DEF IInv, Types, Stages, Early, Late
<1>10. Placed'
  BY <1>1, <1>2, <1>4 DEF IInv, Types, Placed
<1>11. DeniedLeavesNothing'
  <2>1. SUFFICES ASSUME NEW q \in Runs, result[q] = "denied", cleanup[q] = "complete"
                 PROVE destDir' # q /\ (\A f \in Files : file'[f] # q) /\ ~Alive(q)'
    BY <1>1 DEF DeniedLeavesNothing
  <2>2. q # r
    BY <2>1, <1>2 DEF IInv, DeniedLeavesNothing, Alive
  <2>3. QED
    BY <2>1, <2>2, <1>2, <1>3, PreparationAssumption
    DEF IInv, Types, DeniedLeavesNothing, Alive, Makers
<1>12. QED
  BY <1>5, <1>6, <1>7, <1>8, <1>9, <1>10, <1>11 DEF IInv

LEMMA MeddleStep ==
  ASSUME IInv, Meddle
  PROVE IInv'
<1>1. UNCHANGED <<nonce, terminal, worker, workerDir, ready, pc, result, cleanup>>
  BY DEF Meddle
<1>2. /\ destDir' \in {destDir, "absent", "other"}
      /\ file' \in [Files -> Makers \cup {"none"}]
      /\ \A f \in Files : file'[f] \in {file[f], "none", "other"}
      /\ destDir' \notin Makers => \A f \in Files : file'[f] = "none"
  BY DEF Meddle, IInv, Types, Makers
<1>3. Types'
  BY <1>1, <1>2 DEF IInv, Types, Makers
<1>4. SingleUse' /\ Revoked' /\ Held'
  BY <1>1 DEF IInv, SingleUse, Revoked, Held
<1>5. Made' /\ Placed'
  BY <1>1, <1>2, PreparationAssumption DEF IInv, Made, Placed, Makers
<1>6. Stages' /\ DeniedLeavesNothing'
  BY <1>1, <1>2, PreparationAssumption
  DEF IInv, Stages, DeniedLeavesNothing, Alive, Makers
<1>7. QED
  BY <1>3, <1>4, <1>5, <1>6 DEF IInv

LEMMA Stutter ==
  ASSUME IInv, UNCHANGED vars
  PROVE IInv'
<1>1. QED
  BY DEF vars, IInv, Types, SingleUse, Revoked, Held, Made, Stages, Placed,
         DeniedLeavesNothing, Alive
-----------------------------------------------------------------------------

\* The invariant all the others follow from: the ledger, the workers and the
\* destination agree (preparation-executor.ts:233-517, authorization.ts:174-198).
THEOREM PreparationInvariance == Spec => []IInv
<1>1. Init => IInv
  BY Initially
<1>2. IInv /\ [Next]_vars => IInv'
  <2>1. SUFFICES ASSUME IInv, [Next]_vars PROVE IInv'
    OBVIOUS
  <2>2. CASE UNCHANGED vars
    BY <2>1, <2>2, Stutter
  <2>3. CASE Next
    BY <2>1, <2>3, Regroup, QuietStep, SpawnStep, ReadReadyStep, RemovalStep,
       WorkerStep, MakeStep, RevokingStep, MeddleStep
  <2>4. QED
    BY <2>1, <2>2, <2>3
<1>3. QED
  BY <1>1, <1>2, PTL DEF Spec

\* An approval lets at most one worker go, in whatever order executions and
\* revocations reach the ledger (authorization.ts:180-186).
THEOREM OneWorkerPerApproval == Spec => []SingleUse
<1>1. IInv => SingleUse
  BY DEF IInv
<1>2. QED
  BY <1>1, PreparationInvariance, PTL

\* A reported revocation and a released worker exclude each other, whoever
\* verified first (authorization.ts:180-186, production.ts:511-512).
THEOREM RevocationStands == Spec => []RevocationWins
<1>1. IInv => RevocationWins
  BY DEF IInv, SingleUse, Revoked, RevocationWins
<1>2. QED
  BY <1>1, PreparationInvariance, PTL

\* Whatever a run has at the destination, its approval was consumed before
\* (executor.ts:372-384, worker.c:152-164).
THEOREM NothingBeforeApproval == Spec => []EffectsNeedApproval
<1>1. IInv => EffectsNeedApproval
  BY DEF IInv, SingleUse, Made, EffectsNeedApproval
<1>2. QED
  BY <1>1, PreparationInvariance, PTL

\* A denied run with a complete clean-up left nothing and nobody behind
\* (executor.ts:470-508).
THEOREM CleanUpIsComplete == Spec => []DeniedLeavesNothing
<1>1. IInv => DeniedLeavesNothing
  BY DEF IInv
<1>2. QED
  BY <1>1, PreparationInvariance, PTL
-----------------------------------------------------------------------------
(* What is at the destination, and what a clean-up takes from it.           *)

Printed == [kind : {"READY", "VALID", "DIR", "FILE", "DONE"},
            dir : Makers \cup {"none"}, index : Nat]
Making == {"none", "boot", "wait", "make"}

Types2 ==
  /\ full \subseteq Files
  /\ step \in [Runs -> Nat \ {0}]
  /\ pipe \in [Runs -> Seq(Printed)]
  /\ recordedDir \in [Runs -> Makers \cup {"none"}]
  /\ records \in [Runs -> SUBSET Files] /\ todo \in [Runs -> SUBSET Files]
  /\ meddled \in BOOLEAN /\ window \subseteq Runs

\* An executor is told of one directory, the one its worker opened, and of
\* files of the set.
ToldOf(q) ==
  /\ \A i \in 1..Len(pipe[q]) : pipe[q][i].kind = "DIR" =>
       pipe[q][i].dir = workerDir[q] /\ workerDir[q] \in Makers
  /\ \A i \in 1..Len(pipe[q]) : pipe[q][i].kind = "FILE" =>
       pipe[q][i].index \in Files
  /\ worker[q] \in {"announce", "fill"} => step[q] \in Files
  /\ recordedDir[q] \in {"none", workerDir[q]}
  /\ worker[q] \in Making \cup {"open"} => workerDir[q] = "none"

\* A worker makes its directory once.
Fresh(q) ==
  worker[q] \in Making => destDir # q /\ \A p \in Runs : workerDir[p] # q

\* A run nobody caught opened its own directory.
OwnDir(q) ==
  q \notin window => /\ worker[q] = "open" => destDir = q
                     /\ workerDir[q] \in {"none", q}

\* The identity of a file was compared, and of a directory.
Compared(q) ==
  pc[q] = "unlink" /\ destDir = recordedDir[q] =>
    LET f == file[Least(todo[q])]
    IN f = q \/ (f = "other" /\ q \in window)
Emptied(q) ==
  q \notin window /\ pc[q] = "rmdir" => destDir = recordedDir[q]
Removing(q) == pc[q] = "unlink" => todo[q] # {}

\* No two runs are about to unlink one file.
Apart ==
  \A p, q \in Runs :
    /\ p # q /\ pc[p] = "unlink" /\ pc[q] = "unlink"
    /\ destDir = recordedDir[p] /\ destDir = recordedDir[q]
    => Least(todo[p]) # Least(todo[q])

\* As long as the operator keeps away, nobody is caught.
Undisturbed ==
  ~meddled =>
    /\ window = {}
    /\ \A q \in Runs : pc[q] \in {"remove", "unlink", "rmdir"} =>
         destDir = recordedDir[q]

\* The set is whole as far as it was inspected.
Inspected(q) ==
  ~meddled =>
    /\ pc[q] = "files" =>
         /\ destDir = q /\ recordedDir[q] = q
         /\ \A f \in Files \ todo[q] : file[f] = q /\ f \in full
    /\ result[q] = "prepared" =>
         destDir = q /\ \A f \in Files : file[f] = q /\ f \in full

Kept == /\ Types2 /\ Apart /\ Undisturbed
        /\ \A q \in Runs : /\ ToldOf(q) /\ Fresh(q) /\ OwnDir(q)
                           /\ Compared(q) /\ Emptied(q) /\ Removing(q)
                           /\ Inspected(q)

\* What the proofs use of the names: makers are no markers.
LEMMA Names ==
  /\ \A r \in Runs : r \in Makers /\ r # "other"
  /\ \A m \in Makers : m \notin {"none", "absent", "link"}
<1>1. QED
  BY PreparationAssumption DEF Makers

Under == {ss \in Nat \X Nat : ss[1] < ss[2]}

LEMMA UnderIsWellFounded == IsWellFoundedOn(Under, Nat)
<1> DEFINE R == OpToRel(<, Nat)
<1>1. R = Under
  BY Zenon DEF OpToRel, Under
<1>2. IsWellFoundedOn(R, Nat)
  BY NatLessThanWellFounded, Zenon
<1> HIDE DEF R
<1>3. QED
  BY <1>1, <1>2 DEF IsWellFoundedOn

LEMMA LeastIsIn ==
  ASSUME NEW S \in SUBSET Files, S # {}
  PROVE  Least(S) \in S
<1>1. S \subseteq Nat
  BY DEF Files
<1>2. PICK n \in S : \A m \in S : ~(<<m, n>> \in Under)
  BY <1>1, UnderIsWellFounded, WFMin
<1>3. \A m, k \in Nat : m < k => <<m, k>> \in Under
  <2>1. ASSUME NEW m \in Nat, NEW k \in Nat, m < k PROVE <<m, k>> \in Under
    <3>1. <<m, k>> \in Nat \X Nat /\ <<m, k>>[1] = m /\ <<m, k>>[2] = k
      OBVIOUS
    <3>2. QED
      BY <2>1, <3>1 DEF Under
  <2>2. QED
    BY <2>1
<1>4. ASSUME NEW m \in S PROVE n <= m
  <2>1. m \in Nat /\ n \in Nat
    BY <1>1
  <2>2. ~(m < n)
    BY <1>2, <1>3, <2>1, Zenon
  <2>3. QED
    BY <2>1, <2>2
<1>5. QED
  BY <1>4 DEF Least

\* Reading a line and printing one.
LEMMA LineRead ==
  ASSUME NEW p \in Seq(Printed), p # <<>>
  PROVE  /\ Head(p) \in Printed /\ Head(p) = p[1] /\ 1 \in 1..Len(p)
         /\ Tail(p) \in Seq(Printed)
         /\ \A i \in 1..Len(Tail(p)) : i + 1 \in 1..Len(p) /\ Tail(p)[i] = p[i + 1]
<1>1. QED
  OBVIOUS

LEMMA LinePrinted ==
  ASSUME NEW p \in Seq(Printed), NEW l \in Printed
  PROVE  /\ Append(p, l) \in Seq(Printed)
         /\ \A i \in 1..Len(Append(p, l)) :
              Append(p, l)[i] = l \/ (i \in 1..Len(p) /\ Append(p, l)[i] = p[i])
<1>1. QED
  OBVIOUS

\* Steps of the executors and revokers that leave disk and workers alone and do
\* not inspect or remove.
LEMMA Frame ==
  ASSUME IInv, Kept,
         UNCHANGED <<destDir, file, full, worker, step, workerDir, recordedDir,
                     todo, meddled, window>>,
         records' \in [Runs -> SUBSET Files],
         pipe' \in [Runs -> Seq(Printed)],
         \A q \in Runs :
           \/ pipe'[q] = pipe[q]
           \/ pipe[q] # <<>> /\ pipe'[q] = Tail(pipe[q]),
         \A q \in Runs :
           /\ \/ pc'[q] = pc[q]
              \/ pc'[q] \notin {"files", "remove", "unlink", "rmdir"}
           /\ \/ result'[q] = result[q] \/ result'[q] # "prepared"
              \/ pc[q] = "files" /\ todo[q] = {}
  PROVE  Kept'
<1>1. Types2'
  BY DEF Kept, Types2
<1>2. Apart' /\ Undisturbed'
  BY DEF Kept, Apart, Undisturbed
<1>3. ASSUME NEW q \in Runs PROVE ToldOf(q)'
  <2>1. pipe[q] \in Seq(Printed)
    BY DEF Kept, Types2
  <2>2. CASE pipe'[q] = pipe[q]
    BY <2>2 DEF Kept, ToldOf
  <2>3. CASE pipe[q] # <<>> /\ pipe'[q] = Tail(pipe[q])
    <3>1. \A i \in 1..Len(pipe'[q]) :
            i + 1 \in 1..Len(pipe[q]) /\ pipe'[q][i] = pipe[q][i + 1]
      BY <2>1, <2>3, LineRead
    <3>2. ToldOf(q)
      BY DEF Kept
    <3>3. \A i \in 1..Len(pipe'[q]) :
            /\ pipe'[q][i].kind = "DIR" =>
                 pipe'[q][i].dir = workerDir[q] /\ workerDir[q] \in Makers
            /\ pipe'[q][i].kind = "FILE" => pipe'[q][i].index \in Files
      BY <3>1, <3>2 DEF ToldOf
    <3>4. QED
      BY <3>2, <3>3 DEF ToldOf
  <2>4. QED
    BY <2>2, <2>3
<1>4. ASSUME NEW q \in Runs
      PROVE /\ Fresh(q)' /\ OwnDir(q)' /\ Compared(q)' /\ Emptied(q)'
            /\ Removing(q)'
  BY DEF Kept, Fresh, OwnDir, Compared, Emptied, Removing
<1>5. ASSUME NEW q \in Runs PROVE Inspected(q)'
  BY DEF Kept, Inspected
<1>6. QED
  BY <1>1, <1>2, <1>3, <1>4, <1>5 DEF Kept

Passing(r) ==
  \/ CheckDestination(r) \/ Verify(r) \/ DropLine(r) \/ ReadReady(r)
  \/ ReadValid(r) \/ ReadFile(r) \/ ReadDone(r) \/ Abort(r) \/ Close(r)
  \/ Prepared(r) \/ CleanupUnrecorded(r) \/ Crash(r)

LEMMA PassingKeeps ==
  ASSUME IInv, Kept, NEW r \in Runs, Passing(r)
  PROVE  Kept'
<1>1. UNCHANGED <<destDir, file, full, worker, step, workerDir, recordedDir,
                  todo, meddled, window>>
  BY DEF Passing, CheckDestination, Verify, DropLine, ReadReady, ReadValid,
     ReadFile, ReadDone, Abort, Close, Prepared, CleanupUnrecorded, Crash
<1>2. pipe' = pipe \/ (pipe[r] # <<>> /\ pipe' = [pipe EXCEPT ![r] = Tail(@)])
  BY DEF Passing, CheckDestination, Verify, DropLine, ReadReady, ReadValid,
     ReadFile, ReadDone, Abort, Close, Prepared, CleanupUnrecorded, Crash
<1>3. /\ pipe' \in [Runs -> Seq(Printed)]
      /\ \A q \in Runs : \/ pipe'[q] = pipe[q]
                         \/ pipe[q] # <<>> /\ pipe'[q] = Tail(pipe[q])
  <2>1. pipe \in [Runs -> Seq(Printed)]
    BY DEF Kept, Types2
  <2>2. pipe[r] # <<>> => Tail(pipe[r]) \in Seq(Printed)
    BY <2>1, LineRead
  <2>3. QED
    BY <1>2, <2>1, <2>2
<1>4. records' \in [Runs -> SUBSET Files]
  <2>1. CASE UNCHANGED records
    BY <2>1 DEF Kept, Types2
  <2>2. CASE ReadFile(r) /\ ~UNCHANGED records
    <3>1. /\ pipe[r] # <<>> /\ Head(pipe[r]).kind = "FILE"
          /\ records' = [records EXCEPT ![r] = @ \cup {Head(pipe[r]).index}]
      BY <2>2 DEF ReadFile
    <3>2. Head(pipe[r]) = pipe[r][1] /\ 1 \in 1..Len(pipe[r])
      BY <3>1, LineRead DEF Kept, Types2
    <3>3. Head(pipe[r]).index \in Files
      BY <3>1, <3>2 DEF Kept, ToldOf
    <3>4. QED
      BY <3>1, <3>3 DEF Kept, Types2
  <2>3. QED
    BY <2>1, <2>2
    DEF Passing, CheckDestination, Verify, DropLine, ReadReady, ReadValid,
        ReadDone, Abort, Close, Prepared, CleanupUnrecorded, Crash
<1>5. \A q \in Runs :
        /\ \/ pc'[q] = pc[q]
           \/ pc'[q] \notin {"files", "remove", "unlink", "rmdir"}
        /\ \/ result'[q] = result[q] \/ result'[q] # "prepared"
           \/ pc[q] = "files" /\ todo[q] = {}
  BY DEF IInv, Types, Passing, CheckDestination, Verify, DropLine, ReadReady,
     ReadValid, ReadFile, ReadDone, Abort, Close, Prepared, CleanupUnrecorded,
     Crash
<1>6. QED
  BY <1>1, <1>3, <1>4, <1>5, Frame

LEMMA RevokingKeeps ==
  ASSUME IInv, Kept, NEW v \in Revokers, Revoking(v)
  PROVE  Kept'
<1>1. UNCHANGED <<destDir, file, full, worker, step, workerDir, recordedDir,
                  records, pipe, todo, meddled, window>>
  BY DEF Revoking, RevokerVerify, Revoke
<1>2. \A q \in Runs : pc'[q] = pc[q] /\ result'[q] = result[q]
  BY PreparationAssumption DEF IInv, Types, Revoking, RevokerVerify, Revoke
<1>3. records \in [Runs -> SUBSET Files] /\ pipe \in [Runs -> Seq(Printed)]
  BY DEF Kept, Types2
<1>4. QED
  BY <1>1, <1>2, <1>3, Frame

LEMMA SpawnKeeps ==
  ASSUME IInv, Kept, NEW r \in Runs, Spawn(r)
  PROVE  Kept'
<1>1. UNCHANGED <<destDir, file, full, step, workerDir, pipe, recordedDir,
                  records, todo, result, meddled, window>>
  BY DEF Spawn
<1>2. \A q \in Runs :
        /\ \/ worker'[q] = worker[q]
           \/ worker[q] \in Making /\ worker'[q] = "boot"
        /\ pc'[q] = pc[q] \/ pc'[q] \in {"cleanup", "running"}
  <2>1. worker[r] = "none"
    BY DEF Spawn, IInv, Stages, Early
  <2>2. /\ worker' = worker \/ worker' = [worker EXCEPT ![r] = "boot"]
        /\ \/ pc' = [pc EXCEPT ![r] = "cleanup"]
           \/ pc' = [pc EXCEPT ![r] = "running"]
    BY DEF Spawn
  <2>3. QED
    BY <2>1, <2>2 DEF IInv, Types, Making
<1>3. Types2' /\ Apart' /\ Undisturbed'
  BY <1>1, <1>2 DEF Kept, Types2, Apart, Undisturbed
<1>4. ASSUME NEW q \in Runs
      PROVE /\ ToldOf(q)' /\ Fresh(q)' /\ OwnDir(q)' /\ Compared(q)'
            /\ Emptied(q)' /\ Removing(q)' /\ Inspected(q)'
  <2>1. /\ ToldOf(q) /\ Fresh(q) /\ OwnDir(q) /\ Compared(q) /\ Emptied(q)
        /\ Removing(q) /\ Inspected(q)
    BY DEF Kept
  <2>2. ToldOf(q)' /\ Fresh(q)' /\ OwnDir(q)'
    BY <1>1, <1>2, <2>1 DEF ToldOf, Fresh, OwnDir, Making
  <2>3. Compared(q)' /\ Emptied(q)' /\ Removing(q)' /\ Inspected(q)'
    BY <1>1, <1>2, <2>1 DEF Compared, Emptied, Removing, Inspected
  <2>4. QED
    BY <2>2, <2>3
<1>5. QED
  BY <1>3, <1>4 DEF Kept

LEMMA ReadDirKeeps ==
  ASSUME IInv, Kept, NEW r \in Runs, ReadDir(r)
  PROVE  Kept'
<1>1. UNCHANGED <<destDir, file, full, worker, step, workerDir, records, pc,
                  todo, result, meddled, window>>
  BY DEF ReadDir
<1>2. /\ pipe[r] # <<>> /\ Head(pipe[r]).kind = "DIR" /\ pc[r] = "running"
      /\ pipe' = [pipe EXCEPT ![r] = Tail(@)]
      /\ \/ recordedDir' = recordedDir
         \/ recordedDir' = [recordedDir EXCEPT ![r] = Head(pipe[r]).dir]
  BY DEF ReadDir
<1>3. /\ pipe \in [Runs -> Seq(Printed)]
      /\ recordedDir \in [Runs -> Makers \cup {"none"}]
  BY DEF Kept, Types2
<1>4. /\ Head(pipe[r]) = pipe[r][1] /\ 1 \in 1..Len(pipe[r])
      /\ Tail(pipe[r]) \in Seq(Printed)
      /\ \A i \in 1..Len(Tail(pipe[r])) :
           i + 1 \in 1..Len(pipe[r]) /\ Tail(pipe[r])[i] = pipe[r][i + 1]
  BY <1>2, <1>3, LineRead
<1>5. Head(pipe[r]).dir = workerDir[r] /\ workerDir[r] \in Makers
  BY <1>2, <1>4 DEF Kept, ToldOf
<1>6. /\ \A q \in Runs : q # r => /\ pipe'[q] = pipe[q]
                                  /\ recordedDir'[q] = recordedDir[q]
      /\ pipe'[r] = Tail(pipe[r])
      /\ recordedDir'[r] \in {recordedDir[r], workerDir[r]}
  BY <1>2, <1>3, <1>5
<1>7. Types2'
  <2>1. pipe' \in [Runs -> Seq(Printed)]
    BY <1>2, <1>3, <1>4
  <2>2. recordedDir' \in [Runs -> Makers \cup {"none"}]
    BY <1>2, <1>3, <1>5
  <2>3. QED
    BY <1>1, <2>1, <2>2 DEF Kept, Types2
<1>8. Apart' /\ Undisturbed'
  BY <1>1, <1>2, <1>6 DEF Kept, Apart, Undisturbed
<1>9. ASSUME NEW q \in Runs
      PROVE /\ ToldOf(q)' /\ Fresh(q)' /\ OwnDir(q)' /\ Compared(q)'
            /\ Emptied(q)' /\ Removing(q)' /\ Inspected(q)'
  <2>1. /\ ToldOf(q) /\ Fresh(q) /\ OwnDir(q) /\ Compared(q) /\ Emptied(q)
        /\ Removing(q) /\ Inspected(q)
    BY DEF Kept
  <2>2. ToldOf(q)'
    <3>1. CASE q # r
      BY <1>1, <1>6, <2>1, <3>1 DEF ToldOf
    <3>2. CASE q = r
      <4>1. \A i \in 1..Len(pipe'[q]) :
              /\ pipe'[q][i].kind = "DIR" =>
                   pipe'[q][i].dir = workerDir[q] /\ workerDir[q] \in Makers
              /\ pipe'[q][i].kind = "FILE" => pipe'[q][i].index \in Files
        <5>1. ASSUME NEW i \in 1..Len(pipe[r])
              PROVE /\ pipe[r][i].kind = "DIR" =>
                         pipe[r][i].dir = workerDir[r] /\ workerDir[r] \in Makers
                    /\ pipe[r][i].kind = "FILE" => pipe[r][i].index \in Files
          BY <2>1, <3>2 DEF ToldOf
        <5>2. ASSUME NEW i \in 1..Len(pipe'[r])
              PROVE i + 1 \in 1..Len(pipe[r]) /\ pipe'[r][i] = pipe[r][i + 1]
          BY <1>4, <1>6
        <5>3. QED
          BY <3>2, <5>1, <5>2
      <4>2. recordedDir'[q] \in {"none", workerDir[q]}
        BY <1>6, <2>1, <3>2 DEF ToldOf
      <4>3. QED
        BY <1>1, <2>1, <4>1, <4>2 DEF ToldOf
    <3>3. QED
      BY <3>1, <3>2
  <2>3. Fresh(q)' /\ OwnDir(q)' /\ Removing(q)'
    BY <1>1, <2>1 DEF Fresh, OwnDir, Removing
  <2>4. Compared(q)' /\ Emptied(q)' /\ Inspected(q)'
    BY <1>1, <1>2, <1>6, <2>1 DEF Compared, Emptied, Inspected
  <2>5. QED
    BY <2>2, <2>3, <2>4
<1>10. QED
  BY <1>7, <1>8, <1>9 DEF Kept

\* The inspection of the set and the comparisons of a clean-up.
LEMMA InspectionKeeps ==
  ASSUME IInv, Kept, NEW r \in Runs,
         InspectDir(r) \/ InspectFile(r) \/ CleanupOpen(r)
  PROVE  Kept'
<1>1. UNCHANGED <<destDir, file, full, worker, step, workerDir, pipe,
                  recordedDir, records, meddled, window>>
  BY DEF InspectDir, InspectFile, CleanupOpen
<1>2. /\ pc[r] \in {"inspect", "files", "cleanup"}
      /\ pc'[r] \in {"files", "cleanup", "remove", "returned"}
      /\ pc'[r] = "remove" => destDir = recordedDir[r]
      /\ result' = result \/ result' = [result EXCEPT ![r] = "denied"]
      /\ todo'[r] \subseteq Files /\ todo' = [todo EXCEPT ![r] = todo'[r]]
      /\ \A q \in Runs : q # r => pc'[q] = pc[q] /\ todo'[q] = todo[q]
  <2>1. /\ pc \in [Runs \cup Revokers -> Points]
        /\ todo \in [Runs -> SUBSET Files] /\ records[r] \subseteq Files
    BY DEF Kept, Types2, IInv, Types
  <2>2. CASE InspectDir(r)
    BY <2>1, <2>2 DEF InspectDir
  <2>3. CASE InspectFile(r)
    BY <2>1, <2>3 DEF InspectFile
  <2>4. CASE CleanupOpen(r)
    BY <2>1, <2>4 DEF CleanupOpen, StillRecorded
  <2>5. QED
    BY <2>2, <2>3, <2>4
<1>3. \A q \in Runs : result'[q] = "prepared" => result[q] = "prepared"
  BY <1>2 DEF IInv, Types
<1>4. Types2' /\ Apart' /\ Undisturbed'
  <2>1. todo' \in [Runs -> SUBSET Files]
    BY <1>2 DEF Kept, Types2
  <2>2. Types2'
    BY <1>1, <2>1 DEF Kept, Types2
  <2>3. Apart' /\ Undisturbed'
    BY <1>1, <1>2 DEF Kept, Apart, Undisturbed
  <2>4. QED
    BY <2>2, <2>3
<1>5. ASSUME NEW q \in Runs
      PROVE /\ ToldOf(q)' /\ Fresh(q)' /\ OwnDir(q)' /\ Compared(q)'
            /\ Emptied(q)' /\ Removing(q)'
  <2>1. /\ ToldOf(q) /\ Fresh(q) /\ OwnDir(q) /\ Compared(q) /\ Emptied(q)
        /\ Removing(q)
    BY DEF Kept
  <2>2. ToldOf(q)' /\ Fresh(q)' /\ OwnDir(q)'
    BY <1>1, <2>1 DEF ToldOf, Fresh, OwnDir
  <2>3. Compared(q)' /\ Emptied(q)' /\ Removing(q)'
    BY <1>1, <1>2, <2>1 DEF Compared, Emptied, Removing
  <2>4. QED
    BY <2>2, <2>3
<1>6. ASSUME NEW q \in Runs PROVE Inspected(q)'
  <2>1. Inspected(q)
    BY DEF Kept
  <2>2. CASE q # r
    BY <1>1, <1>2, <1>3, <2>1, <2>2 DEF Inspected
  <2>3. CASE q = r
    <3>1. SUFFICES ASSUME ~meddled, pc'[r] = "files"
                   PROVE  /\ destDir = r /\ recordedDir[r] = r
                          /\ \A f \in Files \ todo'[r] : file[f] = r /\ f \in full
      BY <1>1, <1>3, <2>1, <2>3 DEF Inspected
    <3>2. OwnDir(r) /\ ToldOf(r) /\ r \notin window
      BY <3>1 DEF Kept, Undisturbed
    <3>3. CASE InspectDir(r)
      <4>1. destDir = recordedDir[r] /\ todo'[r] = Files
        BY <3>1, <3>3 DEF InspectDir, Kept, Types2, IInv, Types
      <4>2. destDir # "none"
        BY Names DEF IInv, Types
      <4>3. QED
        BY <3>2, <4>1, <4>2 DEF OwnDir, ToldOf
    <3>4. CASE InspectFile(r)
      <4>1. /\ todo'[r] = todo[r] \ {Least(todo[r])} /\ pc[r] = "files"
            /\ destDir = recordedDir[r] =>
                 file[Least(todo[r])] = r /\ Least(todo[r]) \in full
        BY <3>1, <3>4 DEF InspectFile, Kept, Types2, IInv, Types
      <4>2. /\ destDir = r /\ recordedDir[r] = r
            /\ \A f \in Files \ todo[r] : file[f] = r /\ f \in full
        BY <2>1, <2>3, <3>1, <4>1 DEF Inspected
      <4>3. QED
        BY <4>1, <4>2
    <3>5. CASE CleanupOpen(r)
      BY <3>1, <3>5 DEF CleanupOpen, IInv, Types
    <3>6. QED
      BY <3>3, <3>4, <3>5
  <2>4. QED
    BY <2>2, <2>3
<1>7. QED
  BY <1>4, <1>5, <1>6 DEF Kept

\* The comparisons before an unlink and before the rmdir.
LEMMA ComparisonKeeps ==
  ASSUME IInv, Kept, NEW r \in Runs, CleanupCheck(r) \/ CleanupEmpty(r)
  PROVE  Kept'
<1>1. UNCHANGED <<destDir, file, full, worker, step, workerDir, pipe, todo,
                  recordedDir, records, meddled, window>>
  BY DEF CleanupCheck, CleanupEmpty
<1>2. /\ pc[r] = "remove" /\ pc'[r] \in {"unlink", "rmdir", "returned"}
      /\ pc'[r] = "unlink" =>
           /\ todo[r] # {}
           /\ destDir = recordedDir[r] => file[Least(todo[r])] = r
      /\ pc'[r] = "rmdir" => destDir = recordedDir[r]
      /\ result' = result \/ result' = [result EXCEPT ![r] = "denied"]
      /\ \A q \in Runs : q # r => pc'[q] = pc[q]
  <2>1. pc \in [Runs \cup Revokers -> Points]
    BY DEF IInv, Types
  <2>2. CASE CleanupCheck(r)
    BY <2>1, <2>2 DEF CleanupCheck, StillMine
  <2>3. CASE CleanupEmpty(r)
    BY <2>1, <2>3 DEF CleanupEmpty, StillRecorded
  <2>4. QED
    BY <2>2, <2>3
<1>3. \A q \in Runs : result'[q] = "prepared" => result[q] = "prepared"
  BY <1>2 DEF IInv, Types
<1>4. Types2'
  BY <1>1 DEF Kept, Types2
<1>5. Undisturbed'
  BY <1>1, <1>2 DEF Kept, Undisturbed
<1>6. ASSUME NEW q \in Runs
      PROVE /\ ToldOf(q)' /\ Fresh(q)' /\ OwnDir(q)' /\ Compared(q)'
            /\ Emptied(q)' /\ Removing(q)' /\ Inspected(q)'
  <2>1. /\ ToldOf(q) /\ Fresh(q) /\ OwnDir(q) /\ Compared(q) /\ Emptied(q)
        /\ Removing(q) /\ Inspected(q)
    BY DEF Kept
  <2>2. ToldOf(q)' /\ Fresh(q)' /\ OwnDir(q)'
    BY <1>1, <2>1 DEF ToldOf, Fresh, OwnDir
  <2>3. Compared(q)' /\ Emptied(q)' /\ Removing(q)'
    BY <1>1, <1>2, <2>1 DEF Compared, Emptied, Removing
  <2>4. Inspected(q)'
    BY <1>1, <1>2, <1>3, <2>1 DEF Inspected
  <2>5. QED
    BY <2>2, <2>3, <2>4
<1>7. Apart'
  <2>1. ASSUME NEW q \in Runs, q # r, pc[q] = "unlink", pc'[r] = "unlink",
               destDir = recordedDir[r], destDir = recordedDir[q]
        PROVE  Least(todo[q]) # Least(todo[r])
    <3>1. file[Least(todo[r])] = r
      BY <1>2, <2>1
    <3>2. file[Least(todo[q])] \in {q, "other"}
      BY <2>1 DEF Kept, Compared
    <3>3. QED
      BY <2>1, <3>1, <3>2, Names
  <2>2. Apart
    BY DEF Kept
  <2>3. QED
    BY <1>1, <1>2, <2>1, <2>2 DEF Apart
<1>8. QED
  BY <1>4, <1>5, <1>6, <1>7 DEF Kept

\* An unlink takes the file that was compared, and no other run's.
LEMMA UnlinkKeeps ==
  ASSUME IInv, Kept, NEW r \in Runs, CleanupUnlink(r)
  PROVE  Kept'
<1> DEFINE f == Least(todo[r])
<1>1. UNCHANGED <<destDir, worker, step, workerDir, pipe, recordedDir, records,
                  meddled, window>>
  BY DEF CleanupUnlink
<1>2. /\ pc[r] = "unlink" /\ pc'[r] \in {"remove", "returned"}
      /\ pc'[r] = "remove" /\ ~meddled => destDir = recordedDir[r]
      /\ result' = result \/ result' = [result EXCEPT ![r] = "denied"]
      /\ \A q \in Runs : q # r => pc'[q] = pc[q] /\ todo'[q] = todo[q]
  <2>1. /\ pc \in [Runs \cup Revokers -> Points]
        /\ todo \in [Runs -> SUBSET Files]
    BY DEF Kept, Types2, IInv, Types
  <2>2. pc[r] = "unlink"
    BY DEF CleanupUnlink
  <2>3. ~meddled => destDir = recordedDir[r]
    BY <2>2 DEF Kept, Undisturbed
  <2>4. QED
    BY <2>1, <2>2, <2>3 DEF CleanupUnlink
<1>3. \A q \in Runs : result'[q] = "prepared" => result[q] = "prepared"
  BY <1>2 DEF IInv, Types
<1>4. f \in Files
  <2>1. todo[r] # {} /\ todo[r] \in SUBSET Files
    BY <1>2 DEF Kept, Removing, Types2
  <2>2. QED
    BY <2>1, LeastIsIn
<1> HIDE DEF f
<1>5. \/ file' = file /\ full' = full
      \/ /\ destDir = recordedDir[r]
         /\ file' = [file EXCEPT ![f] = "none"] /\ full' = full \ {f}
  BY DEF CleanupUnlink, f
<1>6. /\ todo' \in [Runs -> SUBSET Files]
      /\ file \in [Files -> Makers \cup {"none"}]
  <2>1. /\ todo \in [Runs -> SUBSET Files]
        /\ file \in [Files -> Makers \cup {"none"}]
    BY DEF Kept, Types2, IInv, Types
  <2>2. todo' = todo \/ todo' = [todo EXCEPT ![r] = @ \ {f}]
    BY DEF CleanupUnlink, f
  <2>3. QED
    BY <2>1, <2>2
<1>7. Types2'
  BY <1>1, <1>5, <1>6 DEF Kept, Types2
<1>8. Undisturbed' /\ Apart'
  BY <1>1, <1>2 DEF Kept, Undisturbed, Apart
<1>9. ASSUME NEW q \in Runs
      PROVE /\ ToldOf(q)' /\ Fresh(q)' /\ OwnDir(q)' /\ Emptied(q)'
            /\ Removing(q)'
  BY <1>1, <1>2 DEF Kept, ToldOf, Fresh, OwnDir, Emptied, Removing
<1>10. ASSUME NEW q \in Runs PROVE Compared(q)'
  <2>1. SUFFICES ASSUME pc'[q] = "unlink", destDir = recordedDir[q]
                 PROVE  \/ file'[Least(todo[q])] = q
                        \/ file'[Least(todo[q])] = "other" /\ q \in window
    BY <1>1, <1>2 DEF Compared
  <2>2. q # r /\ pc[q] = "unlink"
    BY <1>2, <2>1
  <2>3. \/ file[Least(todo[q])] = q
        \/ file[Least(todo[q])] = "other" /\ q \in window
    BY <2>1, <2>2 DEF Kept, Compared
  <2>4. Least(todo[q]) \in Files
    <3>1. todo[q] # {} /\ todo[q] \in SUBSET Files
      BY <2>2 DEF Kept, Removing, Types2
    <3>2. QED
      BY <3>1, LeastIsIn
  <2>5. destDir = recordedDir[r] => Least(todo[q]) # f
    BY <1>2, <2>1, <2>2 DEF Kept, Apart, f
  <2>6. QED
    BY <1>5, <1>6, <2>3, <2>4, <2>5
<1>11. ASSUME NEW q \in Runs PROVE Inspected(q)'
  <2>1. Inspected(q)
    BY DEF Kept
  <2>2. SUFFICES ASSUME ~meddled, pc'[q] = "files" \/ result[q] = "prepared"
                 PROVE  file' = file /\ full' = full
    BY <1>1, <1>2, <1>3, <2>1 DEF Inspected
  <2>3. destDir = q
    BY <1>2, <2>1, <2>2 DEF Inspected
  <2>4. q # r
    BY <1>2, <2>2 DEF IInv, Stages
  <2>5. workerDir[r] \in {"none", r} /\ recordedDir[r] \in {"none", workerDir[r]}
    BY <2>2 DEF Kept, Undisturbed, OwnDir, ToldOf
  <2>6. destDir # recordedDir[r]
    BY <2>3, <2>4, <2>5, Names
  <2>7. QED
    BY <1>5, <2>6
<1>12. QED
  BY <1>7, <1>8, <1>9, <1>10, <1>11 DEF Kept

\* An rmdir takes the directory that was compared, or catches its owner.
LEMMA RmdirKeeps ==
  ASSUME IInv, Kept, NEW r \in Runs, CleanupRemoveDir(r)
  PROVE  Kept'
<1>1. UNCHANGED <<file, full, worker, step, workerDir, pipe, recordedDir,
                  records, todo, meddled>>
  BY DEF CleanupRemoveDir
<1>2. /\ pc[r] = "rmdir" /\ pc' = [pc EXCEPT ![r] = "returned"]
      /\ result' = [result EXCEPT ![r] = "denied"]
      /\ \/ UNCHANGED <<destDir, window>>
         \/ /\ destDir' = "absent" /\ destDir \in Makers
            /\ window' = window \cup (Caught \ {r})
  BY DEF CleanupRemoveDir, IInv, Types
<1>2a. UNCHANGED <<destDir, window>> \/ destDir' # destDir
  BY <1>2, Names
<1>3. /\ pc'[r] = "returned" /\ worker[r] \in {"none", "dead"}
      /\ \A q \in Runs : q # r => pc'[q] = pc[q]
      /\ \A q \in Runs : result'[q] = "prepared" => result[q] = "prepared"
      /\ \A q \in Runs : result[q] = "prepared" => pc[q] = "returned"
  BY <1>2 DEF IInv, Types, Stages, Late
<1>4. window \subseteq window' /\ window' \subseteq Runs
  BY <1>2 DEF Kept, Types2, Caught
<1>5. Types2'
  BY <1>1, <1>4 DEF Kept, Types2
<1>6. ASSUME NEW q \in Runs, destDir' # destDir
      PROVE  /\ destDir' # recordedDir[q] /\ destDir' # q
             /\ q # r /\ q \in Caught => q \in window'
  BY <1>2, <1>6, Names DEF Kept, Types2
<1>7. ASSUME NEW q \in Runs, ~meddled, destDir' # destDir,
             destDir = q \/ (destDir = recordedDir[q])
      PROVE  q = r
  <2>1. \A p \in Runs : /\ workerDir[p] \in {"none", p}
                        /\ recordedDir[p] \in {"none", workerDir[p]}
    BY <1>7 DEF Kept, Undisturbed, OwnDir, ToldOf
  <2>2. destDir = recordedDir[r] /\ destDir \in Makers
    BY <1>2, <1>7 DEF Kept, Undisturbed
  <2>3. QED
    BY <1>7, <2>1, <2>2, Names
<1>8. Undisturbed'
  <2>1. SUFFICES ASSUME ~meddled PROVE Undisturbed'
    BY <1>1 DEF Undisturbed
  <2>2. CASE UNCHANGED <<destDir, window>>
    BY <1>1, <1>3, <2>1, <2>2 DEF Kept, Undisturbed
  <2>3. CASE destDir' # destDir
    <3>1. /\ window = {}
          /\ \A q \in Runs : pc[q] \in {"remove", "unlink", "rmdir"} =>
               destDir = recordedDir[q]
      BY <2>1 DEF Kept, Undisturbed
    <3>2. \A q \in Runs : worker[q] = "open" => destDir = q
      BY <3>1 DEF Kept, OwnDir
    <3>3. Caught \subseteq {r}
      BY <1>7, <2>1, <2>3, <3>1, <3>2 DEF Caught
    <3>4. window' = {}
      BY <1>2, <2>3, <3>1, <3>3
    <3>5. \A q \in Runs : pc'[q] \notin {"remove", "unlink", "rmdir"}
      BY <1>3, <1>7, <2>1, <2>3, <3>1
    <3>6. QED
      BY <3>4, <3>5 DEF Undisturbed
  <2>4. QED
    BY <1>2a, <2>2, <2>3
<1>9. Apart'
  <2>1. CASE UNCHANGED <<destDir, window>>
    BY <1>1, <1>3, <2>1 DEF Kept, Apart
  <2>2. CASE destDir' # destDir
    BY <1>1, <1>6, <2>2 DEF Apart
  <2>3. QED
    BY <1>2a, <2>1, <2>2
<1>10. ASSUME NEW q \in Runs
       PROVE /\ ToldOf(q)' /\ Fresh(q)' /\ OwnDir(q)' /\ Compared(q)'
             /\ Emptied(q)' /\ Removing(q)' /\ Inspected(q)'
  <2>1. /\ ToldOf(q) /\ Fresh(q) /\ OwnDir(q) /\ Compared(q) /\ Emptied(q)
        /\ Removing(q) /\ Inspected(q)
    BY DEF Kept
  <2>2. CASE UNCHANGED <<destDir, window>>
    <3>1. ToldOf(q)' /\ Fresh(q)' /\ OwnDir(q)'
      BY <1>1, <2>1, <2>2 DEF ToldOf, Fresh, OwnDir
    <3>2. Compared(q)' /\ Emptied(q)' /\ Removing(q)' /\ Inspected(q)'
      BY <1>1, <1>3, <2>1, <2>2 DEF Compared, Emptied, Removing, Inspected
    <3>3. QED
      BY <3>1, <3>2
  <2>3. CASE destDir' # destDir
    <3>1. destDir' # recordedDir[q] /\ destDir' # q
      BY <1>6, <2>3
    <3>2. q # r /\ q \in Caught => q \in window'
      BY <1>6, <2>3
    <3>3. ToldOf(q)' /\ Removing(q)' /\ Compared(q)'
      BY <1>1, <1>3, <2>1, <3>1 DEF ToldOf, Removing, Compared
    <3>4. Fresh(q)'
      BY <1>1, <2>1, <3>1 DEF Fresh
    <3>5. OwnDir(q)'
      BY <1>1, <1>3, <1>4, <2>1, <3>2 DEF OwnDir, Caught
    <3>6. Emptied(q)'
      BY <1>3, <3>2 DEF Emptied, Caught
    <3>7. Inspected(q)'
      <4>1. SUFFICES ASSUME ~meddled, pc'[q] = "files" \/ result'[q] = "prepared"
                     PROVE  FALSE
        BY <1>1 DEF Inspected
      <4>2. destDir = q /\ pc[q] \in {"files", "returned"}
        BY <1>3, <2>1, <4>1 DEF Inspected
      <4>3. QED
        BY <1>2, <1>7, <2>3, <4>1, <4>2
    <3>8. QED
      BY <3>3, <3>4, <3>5, <3>6, <3>7
  <2>4. QED
    BY <1>2a, <2>2, <2>3
<1>11. QED
  BY <1>5, <1>8, <1>9, <1>10 DEF Kept

\* The steps of a worker that say where it is.
LEMMA WorkerSaysKeeps ==
  ASSUME IInv, Kept, NEW r \in Runs,
         \/ WorkerReady(r) \/ WorkerValid(r) \/ WorkerAnnounce(r)
         \/ WorkerFill(r) \/ WorkerDone(r) \/ WorkerFails(r) \/ WorkerKilled(r)
  PROVE  Kept'
<1>1. UNCHANGED <<destDir, file, workerDir, recordedDir, records, todo, pc,
                  result, meddled, window>>
  BY DEF WorkerReady, WorkerValid, WorkerAnnounce, WorkerFill, WorkerDone,
         WorkerFails, WorkerKilled
<1>2. /\ worker \in [Runs -> WorkerPoints] /\ step \in [Runs -> Nat \ {0}]
      /\ pipe \in [Runs -> Seq(Printed)] /\ ToldOf(r) /\ full \subseteq Files
  BY DEF Kept, Types2, IInv, Types
<1>3. /\ \A q \in Runs : q # r => worker'[q] = worker[q] /\ step'[q] = step[q]
      /\ worker'[r] \in Making => worker[r] \in Making
      /\ worker'[r] \notin {"open", "announce"}
      /\ worker'[r] = "fill" => worker[r] = "announce" /\ step' = step
      /\ worker'[r] \in Making \cup {"open"} => worker[r] \in Making
      /\ step' \in [Runs -> Nat \ {0}]
  <2>1. CASE WorkerFill(r)
    BY <1>2, <2>1 DEF WorkerFill, Making
  <2>2. CASE \/ WorkerReady(r) \/ WorkerValid(r) \/ WorkerAnnounce(r)
             \/ WorkerDone(r) \/ WorkerFails(r) \/ WorkerKilled(r)
    BY <1>2, <2>2 DEF WorkerReady, WorkerValid, WorkerAnnounce, WorkerDone,
       WorkerFails, WorkerKilled, Making
  <2>3. QED
    BY <2>1, <2>2
<1>4. full \subseteq full' /\ full' \subseteq Files
  <2>1. CASE WorkerFill(r)
    BY <1>2, <2>1 DEF WorkerFill, ToldOf
  <2>2. CASE UNCHANGED full
    BY <1>2, <2>2
  <2>3. QED
    BY <2>1, <2>2 DEF WorkerReady, WorkerValid, WorkerAnnounce, WorkerDone,
       WorkerFails, WorkerKilled
<1>5. \/ pipe' = pipe
      \/ \E l \in Printed : /\ pipe' = [pipe EXCEPT ![r] = Append(@, l)]
                            /\ l.kind # "DIR"
                            /\ l.kind = "FILE" => l.index \in Files
  <2>1. CASE WorkerAnnounce(r)
    <3> DEFINE l == [kind |-> "FILE", dir |-> "none", index |-> step[r]]
    <3>1. step[r] \in Files /\ step[r] \in Nat
      BY <1>2, <2>1 DEF WorkerAnnounce, ToldOf
    <3>2. l \in Printed /\ l.kind = "FILE" /\ l.index = step[r]
      BY <3>1 DEF Printed
    <3>3. pipe' = [pipe EXCEPT ![r] = Append(@, l)]
      BY <2>1 DEF WorkerAnnounce
    <3>4. QED
      BY <3>1, <3>2, <3>3
  <2>2. CASE WorkerReady(r) \/ WorkerValid(r) \/ WorkerDone(r)
    <3>1. PICK k \in {"READY", "VALID", "DONE"} :
            pipe' = [pipe EXCEPT ![r] =
                       Append(@, [kind |-> k, dir |-> "none", index |-> 0])]
      BY <2>2 DEF WorkerReady, WorkerValid, WorkerDone
    <3> DEFINE l == [kind |-> k, dir |-> "none", index |-> 0]
    <3>2. l \in Printed /\ l.kind \notin {"DIR", "FILE"}
      BY DEF Printed
    <3>3. QED
      BY <3>1, <3>2
  <2>3. CASE WorkerFill(r) \/ WorkerFails(r) \/ WorkerKilled(r)
    BY <2>3 DEF WorkerFill, WorkerFails, WorkerKilled
  <2>4. QED
    BY <2>1, <2>2, <2>3
<1>6. /\ pipe' \in [Runs -> Seq(Printed)]
      /\ \A q \in Runs \ {r} : pipe'[q] = pipe[q]
      /\ \A i \in 1..Len(pipe'[r]) :
           \/ i \in 1..Len(pipe[r]) /\ pipe'[r][i] = pipe[r][i]
           \/ /\ pipe'[r][i].kind # "DIR"
              /\ pipe'[r][i].kind = "FILE" => pipe'[r][i].index \in Files
  <2>1. CASE pipe' = pipe
    BY <1>2, <2>1
  <2>2. CASE \E l \in Printed : /\ pipe' = [pipe EXCEPT ![r] = Append(@, l)]
                                /\ l.kind # "DIR"
                                /\ l.kind = "FILE" => l.index \in Files
    <3>1. PICK l \in Printed : /\ pipe' = [pipe EXCEPT ![r] = Append(@, l)]
                               /\ l.kind # "DIR"
                               /\ l.kind = "FILE" => l.index \in Files
      BY <2>2
    <3>2. pipe'[r] = Append(pipe[r], l) /\ pipe[r] \in Seq(Printed)
      BY <1>2, <3>1
    <3>3. /\ pipe'[r] \in Seq(Printed)
          /\ \A i \in 1..Len(pipe'[r]) :
               pipe'[r][i] = l
               \/ (i \in 1..Len(pipe[r]) /\ pipe'[r][i] = pipe[r][i])
      BY <3>2, LinePrinted
    <3>4. QED
      BY <1>2, <3>1, <3>3
  <2>3. QED
    BY <1>5, <2>1, <2>2
<1>7. Types2'
  BY <1>1, <1>3, <1>4, <1>6 DEF Kept, Types2
<1>8. Undisturbed' /\ Apart'
  BY <1>1 DEF Kept, Undisturbed, Apart
<1>9. ASSUME NEW q \in Runs
      PROVE /\ ToldOf(q)' /\ Fresh(q)' /\ OwnDir(q)' /\ Compared(q)'
            /\ Emptied(q)' /\ Removing(q)' /\ Inspected(q)'
  <2>1. /\ ToldOf(q) /\ Fresh(q) /\ OwnDir(q) /\ Compared(q) /\ Emptied(q)
        /\ Removing(q) /\ Inspected(q)
    BY DEF Kept
  <2>2. ToldOf(q)'
    <3>1. CASE q # r
      BY <1>1, <1>3, <1>6, <2>1, <3>1 DEF ToldOf
    <3>2. CASE q = r
      <4>1. \A i \in 1..Len(pipe'[r]) :
              /\ pipe'[r][i].kind = "DIR" =>
                   pipe'[r][i].dir = workerDir[r] /\ workerDir[r] \in Makers
              /\ pipe'[r][i].kind = "FILE" => pipe'[r][i].index \in Files
        BY <1>2, <1>6 DEF ToldOf
      <4>2. worker'[r] \in {"announce", "fill"} => step'[r] \in Files
        BY <1>2, <1>3 DEF ToldOf
      <4>3. worker'[r] \in Making \cup {"open"} => workerDir[r] = "none"
        BY <1>2, <1>3 DEF ToldOf
      <4>4. recordedDir[r] \in {"none", workerDir[r]}
        BY <1>2 DEF ToldOf
      <4>5. ToldOf(r)'
        BY <1>1, <4>1, <4>2, <4>3, <4>4 DEF ToldOf, Making
      <4>6. QED
        BY <3>2, <4>5
    <3>3. QED
      BY <3>1, <3>2
  <2>3. Fresh(q)' /\ OwnDir(q)'
    BY <1>1, <1>3, <2>1 DEF Fresh, OwnDir
  <2>4. Compared(q)' /\ Emptied(q)' /\ Removing(q)' /\ Inspected(q)'
    BY <1>1, <1>4, <2>1 DEF Compared, Emptied, Removing, Inspected
  <2>5. QED
    BY <2>2, <2>3, <2>4
<1>10. QED
  BY <1>7, <1>8, <1>9 DEF Kept

\* The worker opens a directory: its own, unless it was caught.
LEMMA WorkerDirKeeps ==
  ASSUME IInv, Kept, NEW r \in Runs, WorkerDir(r)
  PROVE  Kept'
<1>1. UNCHANGED <<destDir, file, full, step, recordedDir, records, todo, pc,
                  result, meddled, window>>
  BY DEF WorkerDir
<1>2. /\ worker[r] = "open" /\ destDir \in Makers
      /\ worker' = [worker EXCEPT ![r] = "create"]
      /\ workerDir' = [workerDir EXCEPT ![r] = destDir]
      /\ pipe' = [pipe EXCEPT ![r] =
                    Append(@, [kind |-> "DIR", dir |-> destDir, index |-> 0])]
  BY DEF WorkerDir
<1>3. /\ worker \in [Runs -> WorkerPoints]
      /\ workerDir \in [Runs -> Makers \cup {"none"}]
      /\ pipe \in [Runs -> Seq(Printed)]
      /\ ToldOf(r) /\ OwnDir(r)
  BY DEF Kept, Types2, IInv, Types
<1>4. /\ \A q \in Runs : q # r => /\ worker'[q] = worker[q]
                                  /\ workerDir'[q] = workerDir[q]
                                  /\ pipe'[q] = pipe[q]
      /\ worker'[r] = "create" /\ workerDir'[r] = destDir
      /\ workerDir[r] = "none" /\ recordedDir[r] = "none"
  BY <1>2, <1>3 DEF ToldOf
<1> DEFINE l == [kind |-> "DIR", dir |-> destDir, index |-> 0]
<1>5. l \in Printed /\ l.kind = "DIR" /\ l.dir = destDir
  BY <1>2 DEF Printed
<1>6. pipe'[r] = Append(pipe[r], l) /\ pipe[r] \in Seq(Printed)
  BY <1>2, <1>3
<1> HIDE DEF l
<1>7. /\ pipe'[r] \in Seq(Printed)
      /\ \A i \in 1..Len(pipe'[r]) :
           pipe'[r][i] = l
           \/ (i \in 1..Len(pipe[r]) /\ pipe'[r][i] = pipe[r][i])
  BY <1>5, <1>6, LinePrinted
<1>8. Types2'
  <2>1. pipe' \in [Runs -> Seq(Printed)]
    BY <1>2, <1>3, <1>7
  <2>2. QED
    BY <1>1, <2>1 DEF Kept, Types2
<1>9. Undisturbed' /\ Apart'
  BY <1>1 DEF Kept, Undisturbed, Apart
<1>10. ToldOf(r)'
  <2>1. \A i \in 1..Len(pipe'[r]) :
          /\ pipe'[r][i].kind = "DIR" => pipe'[r][i].dir = destDir
          /\ pipe'[r][i].kind = "FILE" => pipe'[r][i].index \in Files
    <3>1. SUFFICES ASSUME NEW i \in 1..Len(pipe'[r])
                   PROVE  /\ pipe'[r][i].kind = "DIR" => pipe'[r][i].dir = destDir
                          /\ pipe'[r][i].kind = "FILE" =>
                               pipe'[r][i].index \in Files
      OBVIOUS
    <3>2. CASE pipe'[r][i] = l
      BY <1>5, <3>2
    <3>3. CASE i \in 1..Len(pipe[r]) /\ pipe'[r][i] = pipe[r][i]
      <4>1. pipe[r][i].kind # "DIR"
        BY <1>3, <1>4, <3>3, Names DEF ToldOf
      <4>2. QED
        BY <1>3, <3>3, <4>1 DEF ToldOf
    <3>4. QED
      BY <1>7, <3>2, <3>3
  <2>2. QED
    BY <1>1, <1>2, <1>4, <2>1 DEF ToldOf, Making
<1>11. ASSUME NEW q \in Runs
       PROVE /\ ToldOf(q)' /\ Fresh(q)' /\ OwnDir(q)' /\ Compared(q)'
             /\ Emptied(q)' /\ Removing(q)' /\ Inspected(q)'
  <2>1. /\ ToldOf(q) /\ Fresh(q) /\ OwnDir(q) /\ Compared(q) /\ Emptied(q)
        /\ Removing(q) /\ Inspected(q)
    BY DEF Kept
  <2>2. ToldOf(q)'
    <3>1. CASE q # r
      BY <1>1, <1>4, <2>1, <3>1 DEF ToldOf
    <3>2. QED
      BY <1>10, <3>1
  <2>3. Fresh(q)'
    BY <1>1, <1>4, <2>1 DEF Fresh, Making
  <2>4. OwnDir(q)'
    BY <1>1, <1>2, <1>4, <2>1 DEF OwnDir
  <2>5. Compared(q)' /\ Emptied(q)' /\ Removing(q)' /\ Inspected(q)'
    BY <1>1, <2>1 DEF Compared, Emptied, Removing, Inspected
  <2>6. QED
    BY <2>2, <2>3, <2>4, <2>5
<1>12. QED
  BY <1>8, <1>9, <1>11 DEF Kept

LEMMA MkdirKeeps ==
  ASSUME IInv, Kept, NEW r \in Runs, WorkerMkdir(r)
  PROVE  Kept'
<1>1. UNCHANGED <<step, workerDir, pipe, recordedDir, records, todo, pc,
                  result, meddled, window>>
  BY DEF WorkerMkdir
<1>2. /\ worker[r] = "make" /\ destDir = "absent" /\ destDir' = r
      /\ worker' = [worker EXCEPT ![r] = "open"] /\ full' = {}
  BY DEF WorkerMkdir, MakeDir
<1>3. /\ worker'[r] = "open"
      /\ \A q \in Runs : q # r => worker'[q] = worker[q]
  BY <1>2 DEF IInv, Types
<1>4. Types2'
  BY <1>1, <1>2 DEF Kept, Types2
<1>5. ASSUME NEW q \in Runs
      PROVE  /\ destDir # recordedDir[q] /\ destDir # q
             /\ destDir' # recordedDir[q]
  <2>1. recordedDir[q] \in Makers \cup {"none"}
    BY DEF Kept, Types2
  <2>2. workerDir[q] # r
    BY <1>2 DEF Kept, Fresh, Making
  <2>3. recordedDir[q] \in {"none", workerDir[q]}
    BY DEF Kept, ToldOf
  <2>4. QED
    BY <1>2, <2>1, <2>2, <2>3, Names
<1>6. Apart' /\ Undisturbed'
  BY <1>1, <1>5 DEF Kept, Apart, Undisturbed
<1>7. ASSUME NEW q \in Runs
      PROVE /\ ToldOf(q)' /\ Fresh(q)' /\ OwnDir(q)' /\ Compared(q)'
            /\ Emptied(q)' /\ Removing(q)' /\ Inspected(q)'
  <2>1. /\ ToldOf(q) /\ Fresh(q) /\ OwnDir(q) /\ Compared(q) /\ Emptied(q)
        /\ Removing(q) /\ Inspected(q)
    BY DEF Kept
  <2>2. ToldOf(q)'
    BY <1>1, <1>2, <1>3, <2>1 DEF ToldOf, Making
  <2>3. Fresh(q)' /\ OwnDir(q)'
    BY <1>1, <1>2, <1>3, <1>5, <2>1 DEF Fresh, OwnDir, Making
  <2>4. Compared(q)' /\ Emptied(q)' /\ Removing(q)'
    BY <1>1, <1>5, <2>1 DEF Compared, Emptied, Removing
  <2>5. Inspected(q)'
    BY <1>1, <1>5, <2>1 DEF Inspected
  <2>6. QED
    BY <2>2, <2>3, <2>4, <2>5
<1>8. QED
  BY <1>4, <1>6, <1>7 DEF Kept

\* A worker creates a file where none is.
LEMMA CreateKeeps ==
  ASSUME IInv, Kept, NEW r \in Runs, WorkerCreate(r)
  PROVE  Kept'
<1>1. UNCHANGED <<destDir, full, step, workerDir, pipe, recordedDir, records,
                  todo, pc, result, meddled, window>>
  BY DEF WorkerCreate
<1>2. /\ worker[r] = "create" /\ worker' = [worker EXCEPT ![r] = "announce"]
      /\ step[r] <= NumFiles
      /\ \/ file' = file
         \/ /\ file[step[r]] = "none"
            /\ file' = [file EXCEPT ![step[r]] = r]
  BY DEF WorkerCreate
<1>3. step[r] \in Files
  BY <1>2, PreparationAssumption DEF Kept, Types2, Files
<1>4. /\ worker'[r] = "announce"
      /\ \A q \in Runs : q # r => worker'[q] = worker[q]
      /\ \A f \in Files : file[f] # "none" => file'[f] = file[f]
  BY <1>2, <1>3 DEF IInv, Types
<1>5. Types2' /\ Apart' /\ Undisturbed'
  BY <1>1 DEF Kept, Types2, Apart, Undisturbed
<1>6. ASSUME NEW q \in Runs
      PROVE /\ ToldOf(q)' /\ Fresh(q)' /\ OwnDir(q)' /\ Compared(q)'
            /\ Emptied(q)' /\ Removing(q)' /\ Inspected(q)'
  <2>1. /\ ToldOf(q) /\ Fresh(q) /\ OwnDir(q) /\ Compared(q) /\ Emptied(q)
        /\ Removing(q) /\ Inspected(q)
    BY DEF Kept
  <2>2. ToldOf(q)' /\ Fresh(q)' /\ OwnDir(q)'
    BY <1>1, <1>3, <1>4, <2>1 DEF ToldOf, Fresh, OwnDir, Making
  <2>3. Emptied(q)' /\ Removing(q)'
    BY <1>1, <2>1 DEF Emptied, Removing
  <2>4. Compared(q)'
    <3>1. SUFFICES ASSUME pc[q] = "unlink", destDir = recordedDir[q]
                   PROVE  file'[Least(todo[q])] = file[Least(todo[q])]
      BY <1>1, <2>1 DEF Compared
    <3>2. file[Least(todo[q])] \in {q, "other"}
      BY <2>1, <3>1 DEF Compared
    <3>3. todo[q] # {} /\ todo[q] \in SUBSET Files
      BY <2>1, <3>1 DEF Removing, Kept, Types2
    <3>4. Least(todo[q]) \in Files
      BY <3>3, LeastIsIn
    <3>5. file[Least(todo[q])] # "none"
      BY <3>2, Names DEF Makers
    <3>6. QED
      BY <1>4, <3>4, <3>5
  <2>5. Inspected(q)'
    <3>1. \A f \in Files : file[f] = q => file'[f] = q
      BY <1>4, Names
    <3>2. QED
      BY <1>1, <2>1, <3>1 DEF Inspected
  <2>6. QED
    BY <2>2, <2>3, <2>4, <2>5
<1>7. QED
  BY <1>5, <1>6 DEF Kept

\* The operator touches the destination once, and catches whoever is between a
\* check and its use.
LEMMA MeddleKeeps ==
  ASSUME IInv, Kept, Meddle
  PROVE  Kept'
<1>1. UNCHANGED <<worker, step, workerDir, pipe, recordedDir, records, todo,
                  pc, result>>
  BY DEF Meddle
<1>2. /\ ~meddled /\ meddled' = TRUE /\ window' = window \cup Caught
      /\ full' \subseteq Files
  BY DEF Meddle, Kept, Types2
<1>3. \/ destDir' \in {"absent", "other"} /\ destDir' # destDir
      \/ /\ destDir' = destDir
         /\ \E f \in Files : file' = [file EXCEPT ![f] = "other"]
  BY DEF Meddle
<1>4. /\ window = {}
      /\ \A q \in Runs : /\ workerDir[q] \in {"none", q}
                         /\ recordedDir[q] \in {"none", workerDir[q]}
  BY <1>2 DEF Kept, Undisturbed, OwnDir, ToldOf
<1>5. ASSUME NEW q \in Runs, destDir' # destDir
      PROVE  destDir' # recordedDir[q] /\ destDir' # q
  BY <1>3, <1>4, <1>5, Names DEF Makers
<1>6. Types2'
  BY <1>1, <1>2 DEF Kept, Types2, Caught
<1>7. Undisturbed'
  BY <1>2 DEF Undisturbed
<1>8. Apart'
  <2>1. CASE destDir' = destDir
    BY <1>1, <2>1 DEF Kept, Apart
  <2>2. CASE destDir' # destDir
    BY <1>1, <1>5, <2>2 DEF Apart
  <2>3. QED
    BY <2>1, <2>2
<1>9. ASSUME NEW q \in Runs
      PROVE /\ ToldOf(q)' /\ Fresh(q)' /\ OwnDir(q)' /\ Compared(q)'
            /\ Emptied(q)' /\ Removing(q)' /\ Inspected(q)'
  <2>1. /\ ToldOf(q) /\ Fresh(q) /\ OwnDir(q) /\ Compared(q) /\ Emptied(q)
        /\ Removing(q) /\ Inspected(q)
    BY DEF Kept
  <2>2. ToldOf(q)' /\ Removing(q)'
    BY <1>1, <2>1 DEF ToldOf, Removing
  <2>3. Fresh(q)'
    BY <1>1, <1>5, <2>1 DEF Fresh
  <2>4. OwnDir(q)'
    BY <1>1, <1>2, <1>4, <2>1 DEF OwnDir, Caught
  <2>5. Emptied(q)'
    BY <1>1, <1>2 DEF Emptied, Caught
  <2>6. Inspected(q)'
    BY <1>2 DEF Inspected
  <2>7. Compared(q)'
    <3>1. SUFFICES ASSUME pc[q] = "unlink", destDir' = recordedDir[q]
                   PROVE  file'[Least(todo[q])] \in {q, "other"} /\ q \in window'
      BY <1>1 DEF Compared
    <3>2. q \in window'
      BY <1>2, <3>1 DEF Caught
    <3>3. PICK f \in Files : destDir' = destDir /\ file' = [file EXCEPT ![f] = "other"]
      BY <1>3, <1>5, <3>1
    <3>4. file[Least(todo[q])] = q
      BY <1>4, <2>1, <3>1, <3>3 DEF Compared
    <3>5. todo[q] # {} /\ todo[q] \in SUBSET Files
      BY <2>1, <3>1 DEF Removing, Kept, Types2
    <3>6. Least(todo[q]) \in Files
      BY <3>5, LeastIsIn
    <3>7. QED
      BY <3>2, <3>3, <3>4, <3>6 DEF IInv, Types
  <2>8. QED
    BY <2>2, <2>3, <2>4, <2>5, <2>6, <2>7
<1>10. QED
  BY <1>6, <1>7, <1>8, <1>9 DEF Kept

LEMMA KeptBegins ==
  ASSUME Init
  PROVE  Kept
<1>1. Types2
  <2>1. <<>> \in Seq(Printed)
    OBVIOUS
  <2>2. pipe \in [Runs -> Seq(Printed)]
    BY <2>1 DEF Init
  <2>3. /\ full \subseteq Files /\ meddled \in BOOLEAN /\ window \subseteq Runs
        /\ step \in [Runs -> Nat \ {0}]
    <3>1. full = {} /\ meddled = FALSE /\ window = {}
      BY DEF Init
    <3>2. step = [r \in Runs |-> 1] /\ 1 \in Nat \ {0}
      BY DEF Init
    <3>3. step \in [Runs -> Nat \ {0}]
      BY <3>2
    <3>4. QED
      BY <3>1, <3>3
  <2>4. recordedDir \in [Runs -> Makers \cup {"none"}]
    BY DEF Init
  <2>5. {} \in SUBSET Files
    OBVIOUS
  <2>6. records \in [Runs -> SUBSET Files] /\ todo \in [Runs -> SUBSET Files]
    BY <2>5 DEF Init
  <2>7. QED
    BY <2>2, <2>3, <2>4, <2>6 DEF Types2
<1>2. Apart /\ Undisturbed
  BY DEF Init, Apart, Undisturbed
<1>3. ASSUME NEW q \in Runs
      PROVE /\ ToldOf(q) /\ Fresh(q) /\ OwnDir(q) /\ Compared(q)
            /\ Emptied(q) /\ Removing(q) /\ Inspected(q)
  <2>1. /\ pc[q] = "idle" /\ worker[q] = "none" /\ pipe[q] = <<>>
        /\ recordedDir[q] = "none" /\ result[q] = "none"
        /\ \A p \in Runs : workerDir[p] = "none"
        /\ destDir \in {"absent", "link", "other"}
    BY DEF Init
  <2>2. Len(<<>>) = 0
    OBVIOUS
  <2>3. ToldOf(q)
    BY <2>1, <2>2 DEF ToldOf
  <2>4. Fresh(q) /\ OwnDir(q)
    BY <2>1, Names DEF Fresh, OwnDir
  <2>5. Compared(q) /\ Emptied(q) /\ Removing(q) /\ Inspected(q)
    BY <2>1 DEF Compared, Emptied, Removing, Inspected
  <2>6. QED
    BY <2>3, <2>4, <2>5
<1>4. QED
  BY <1>1, <1>2, <1>3 DEF Kept

LEMMA KeptStutter ==
  ASSUME Kept, UNCHANGED vars
  PROVE  Kept'
<1>1. Types2' /\ Apart' /\ Undisturbed'
  BY DEF vars, Kept, Types2, Apart, Undisturbed
<1>2. ASSUME NEW q \in Runs
      PROVE /\ ToldOf(q)' /\ Fresh(q)' /\ OwnDir(q)' /\ Compared(q)'
            /\ Emptied(q)' /\ Removing(q)' /\ Inspected(q)'
  BY DEF vars, Kept, ToldOf, Fresh, OwnDir, Compared, Emptied, Removing,
         Inspected
<1>3. QED
  BY <1>1, <1>2 DEF Kept

\* What is at the destination and what a clean-up knows of it
\* (preparation-executor.ts:426-508, preparation-worker.c:160-176).
THEOREM DestinationInvariance == Spec => []Kept
<1>1. IInv /\ Kept /\ [Next]_vars => Kept'
  <2>1. SUFFICES ASSUME IInv, Kept, [Next]_vars PROVE Kept'
    OBVIOUS
  <2>2. CASE UNCHANGED vars
    BY <2>1, <2>2, KeptStutter
  <2>3. ASSUME NEW r \in Runs, Execute(r) \/ Crash(r) PROVE Kept'
    BY <2>1, <2>3, PassingKeeps, SpawnKeeps, ReadDirKeeps, InspectionKeeps,
       ComparisonKeeps, UnlinkKeeps, RmdirKeeps
    DEF Execute, Passing
  <2>4. ASSUME NEW r \in Runs, Work(r) \/ WorkerKilled(r) PROVE Kept'
    BY <2>1, <2>4, WorkerSaysKeeps, WorkerDirKeeps, MkdirKeeps, CreateKeeps
    DEF Work
  <2>5. ASSUME NEW v \in Revokers, RevokerVerify(v) \/ Revoke(v) PROVE Kept'
    BY <2>1, <2>5, RevokingKeeps DEF Revoking
  <2>6. QED
    BY <2>1, <2>2, <2>3, <2>4, <2>5, MeddleKeeps DEF Next
<1>2. Init => Kept
  BY KeptBegins
<1>3. QED
  BY <1>1, <1>2, PreparationInvariance, PTL DEF Spec

\* A set reported as prepared is there, whole, and stays whatever other runs do
\* (executor.ts:426-466), for any number of runs and files.
THEOREM PreparedStaysWhole == Spec => []PreparedIsWhole
<1>1. Kept => PreparedIsWhole
  BY DEF Kept, Inspected, PreparedIsWhole
<1>2. QED
  BY <1>1, DestinationInvariance, PTL

\* A clean-up that nobody caught between a comparison and its use takes nothing
\* another run or the operator made (executor.ts:494-502, worker.c:164-167).
THEOREM OthersAreSpared == Spec => RemovesOnlyItsOwn
<1> DEFINE Spared ==
      \A r \in Runs :
        pc[r] \in {"unlink", "rmdir"} /\ pc'[r] # pc[r] /\ r \notin window =>
          /\ \A f \in Files : file'[f] # file[f] => file[f] = r
          /\ destDir' # destDir => destDir = r
<1>1. IInv /\ Kept /\ [Next]_vars => [Spared]_vars
  <2>1. SUFFICES ASSUME IInv, Kept, Next, NEW r \in Runs,
                        pc[r] \in {"unlink", "rmdir"}, pc'[r] # pc[r],
                        r \notin window
                 PROVE  /\ \A f \in Files : file'[f] # file[f] => file[f] = r
                        /\ destDir' # destDir => destDir = r
    OBVIOUS
  <2>2. CleanupUnlink(r) \/ CleanupRemoveDir(r) \/ Crash(r)
    <3>1. ASSUME NEW q \in Runs, Execute(q) \/ Crash(q) PROVE q = r
      <4>1. \A p \in Runs : p # q => pc'[p] = pc[p]
        BY <2>1, <3>1 DEF Execute, IInv, Types, CheckDestination, Verify, Spawn,
           DropLine, ReadReady, ReadValid, ReadDir, ReadFile, ReadDone, Abort,
           Close, InspectDir, InspectFile, Prepared, CleanupUnrecorded,
           CleanupOpen, CleanupCheck, CleanupUnlink, CleanupEmpty,
           CleanupRemoveDir, Crash
      <4>2. QED
        BY <2>1, <4>1
    <3>2. ASSUME NEW q \in Runs, Work(q) \/ WorkerKilled(q) PROVE FALSE
      BY <2>1, <3>2 DEF Work, WorkerReady, WorkerValid, WorkerMkdir, WorkerDir,
         WorkerCreate, WorkerAnnounce, WorkerFill, WorkerDone, WorkerFails,
         WorkerKilled
    <3>3. ASSUME NEW v \in Revokers, RevokerVerify(v) \/ Revoke(v) PROVE FALSE
      BY <2>1, <3>3, PreparationAssumption
      DEF RevokerVerify, Revoke, IInv, Types
    <3>4. ~Meddle
      BY <2>1 DEF Meddle
    <3>5. Execute(r) \/ Crash(r)
      BY <2>1, <3>1, <3>2, <3>3, <3>4 DEF Next
    <3>6. QED
      BY <2>1, <3>5 DEF Execute, CheckDestination, Verify, Spawn, DropLine,
         ReadReady, ReadValid, ReadDir, ReadFile, ReadDone, Abort, Close,
         InspectDir, InspectFile, Prepared, CleanupUnrecorded, CleanupOpen,
         CleanupCheck, CleanupEmpty
  <2>3. CASE Crash(r)
    BY <2>3 DEF Crash
  <2>4. CASE CleanupUnlink(r)
    <3>1. destDir' = destDir
      BY <2>4 DEF CleanupUnlink
    <3>2. todo[r] # {} /\ todo[r] \in SUBSET Files /\ pc[r] = "unlink"
      BY <2>1, <2>4 DEF CleanupUnlink, Kept, Removing, Types2
    <3>3. Least(todo[r]) \in Files
      BY <3>2, LeastIsIn
    <3>4. \/ file' = file
          \/ /\ destDir = recordedDir[r]
             /\ file' = [file EXCEPT ![Least(todo[r])] = "none"]
      BY <2>4 DEF CleanupUnlink
    <3>5. destDir = recordedDir[r] => file[Least(todo[r])] = r
      BY <2>1, <3>2 DEF Kept, Compared
    <3>6. QED
      BY <2>1, <3>1, <3>3, <3>4, <3>5 DEF IInv, Types
  <2>5. CASE CleanupRemoveDir(r)
    <3>1. file' = file /\ pc[r] = "rmdir"
      BY <2>5 DEF CleanupRemoveDir
    <3>2. destDir = recordedDir[r]
      BY <2>1, <3>1 DEF Kept, Emptied
    <3>3. workerDir[r] \in {"none", r} /\ recordedDir[r] \in {"none", workerDir[r]}
      BY <2>1 DEF Kept, OwnDir, ToldOf
    <3>4. destDir # "none"
      BY <2>1, Names DEF IInv, Types
    <3>5. QED
      BY <3>1, <3>2, <3>3, <3>4
  <2>6. QED
    BY <2>2, <2>3, <2>4, <2>5
<1>2. QED
  BY <1>1, PreparationInvariance, DestinationInvariance, PTL
  DEF Spec, RemovesOnlyItsOwn
-----------------------------------------------------------------------------
(* The lines of the protocol, and the rest of the types.                    *)

\* How many lines a worker has printed by a point.
Said(q) ==
  CASE worker[q] \in {"none", "boot"} -> 0
    [] worker[q] = "wait" -> 1
    [] worker[q] \in {"make", "open"} -> 2
    [] worker[q] \in {"create", "announce"} -> step[q] + 2
    [] worker[q] = "fill" -> step[q] + 3
    [] OTHER -> NumFiles + 4

InProtocol(q) ==
  /\ step[q] <= NumFiles + 1
  /\ Len(pipe[q]) <= Said(q)
  /\ \A i \in 1..Len(pipe[q]) : pipe[q][i] \in Lines

Bounded ==
  /\ nonce \in Assignments
  /\ exitOk \subseteq Runs /\ aborted \subseteq Runs
  /\ validated \subseteq Runs /\ done \subseteq Runs
  /\ \A q \in Runs : InProtocol(q)

LEMMA Counts ==
  ASSUME IInv, Kept, NEW q \in Runs
  PROVE  /\ NumFiles \in Nat /\ step[q] \in Nat \ {0} /\ Said(q) \in Nat
         /\ pipe[q] \in Seq(Printed) /\ Len(pipe[q]) \in Nat
         /\ worker[q] \in {"announce", "fill"} => step[q] \in 1..NumFiles
<1>1. QED
  BY PreparationAssumption DEF Kept, Types2, ToldOf, Files, Said

\* Reading keeps to the protocol.
LEMMA ReadingKeepsBounds ==
  ASSUME IInv, Kept, Bounded,
         UNCHANGED <<nonce, worker, step, exitOk>>,
         aborted' \subseteq Runs /\ validated' \subseteq Runs /\ done' \subseteq Runs,
         \A q \in Runs : \/ pipe'[q] = pipe[q]
                         \/ pipe[q] # <<>> /\ pipe'[q] = Tail(pipe[q])
  PROVE  Bounded'
<1>1. ASSUME NEW q \in Runs PROVE InProtocol(q)'
  <2>1. pipe[q] \in Seq(Printed) /\ InProtocol(q)
    BY DEF Kept, Types2, Bounded
  <2>2. CASE pipe'[q] = pipe[q]
    BY <2>1, <2>2 DEF InProtocol, Said
  <2>3. CASE pipe[q] # <<>> /\ pipe'[q] = Tail(pipe[q])
    <3>1. Len(pipe'[q]) <= Len(pipe[q]) /\ Len(pipe'[q]) \in Nat
      BY <2>1, <2>3
    <3>2. \A i \in 1..Len(pipe'[q]) : pipe'[q][i] \in Lines
      BY <2>1, <2>3, LineRead DEF InProtocol
    <3>3. Said(q)' = Said(q)
      BY DEF Said
    <3>4. QED
      BY <2>1, <3>1, <3>2, <3>3, Counts DEF InProtocol
  <2>4. QED
    BY <2>2, <2>3
<1>2. QED
  BY <1>1 DEF Bounded

\* A worker prints a line when it passes to the point behind it.
LEMMA SayingKeepsBounds ==
  ASSUME IInv, Kept, Bounded, NEW r \in Runs, Work(r) \/ WorkerKilled(r)
  PROVE  Bounded'
<1>1. UNCHANGED <<nonce, aborted, validated, done>> /\ exitOk' \subseteq Runs
  BY DEF Bounded, Work, WorkerReady, WorkerValid, WorkerMkdir, WorkerDir,
     WorkerCreate, WorkerAnnounce, WorkerFill, WorkerDone, WorkerFails,
     WorkerKilled, ledger, protocol, workers
<1>2. ASSUME NEW q \in Runs, q # r PROVE InProtocol(q)'
  <2>1. worker'[q] = worker[q] /\ step'[q] = step[q] /\ pipe'[q] = pipe[q]
    BY <1>2 DEF IInv, Types, Kept, Types2, Work, WorkerReady, WorkerValid,
       WorkerMkdir, WorkerDir, WorkerCreate, WorkerAnnounce, WorkerFill,
       WorkerDone, WorkerFails, WorkerKilled, Turn, Says, workers
  <2>2. QED
    BY <2>1 DEF Bounded, InProtocol, Said
<1>3. InProtocol(r)'
  <2>1. /\ InProtocol(r) /\ pipe[r] \in Seq(Printed) /\ step[r] \in Nat \ {0}
        /\ worker[r] \in {"announce", "fill"} => step[r] \in 1..NumFiles
        /\ worker \in [Runs -> WorkerPoints] /\ destDir \in Makers \cup {"absent", "link"}
        /\ NumFiles \in Nat
    BY PreparationAssumption
    DEF Bounded, Kept, Types2, ToldOf, IInv, Types, Files
  <2>2. Said(r) \in Nat /\ Len(pipe[r]) \in Nat
    BY Counts
  <2>3. CASE /\ pipe'[r] = pipe[r] /\ step'[r] <= NumFiles + 1
             /\ Said(r)' \in Int /\ Said(r) <= Said(r)'
    BY <2>1, <2>2, <2>3 DEF InProtocol
  <2>4. CASE /\ step'[r] = step[r] /\ Said(r)' \in Int /\ Said(r) + 1 <= Said(r)'
             /\ \E l \in Lines : pipe'[r] = Append(pipe[r], l)
    <3>1. PICK l \in Lines : pipe'[r] = Append(pipe[r], l)
      BY <2>4
    <3>2. Len(pipe'[r]) = Len(pipe[r]) + 1
      BY <2>1, <3>1
    <3>3. \A i \in 1..Len(pipe'[r]) : pipe'[r][i] \in Lines
      BY <2>1, <3>1 DEF InProtocol
    <3>4. step[r] <= NumFiles + 1 /\ Len(pipe[r]) <= Said(r)
      BY <2>1 DEF InProtocol
    <3>5. step'[r] <= NumFiles + 1 /\ Len(pipe'[r]) <= Said(r)'
      BY <2>2, <2>4, <3>2, <3>4
    <3>6. QED
      BY <3>3, <3>5 DEF InProtocol
  <2>5. CASE WorkerMkdir(r) \/ WorkerCreate(r) \/ WorkerFill(r)
    <3>1. /\ worker'[r] = IF worker[r] = "make" THEN "open"
                          ELSE IF worker[r] = "create" THEN "announce" ELSE "create"
          /\ worker[r] \in {"make", "create", "fill"}
          /\ step'[r] = IF worker[r] = "fill" THEN step[r] + 1 ELSE step[r]
          /\ pipe' = pipe
      BY <2>1, <2>5 DEF WorkerMkdir, WorkerCreate, WorkerFill, Turn, Kept, Types2
    <3>2. QED
      BY <2>1, <2>3, <3>1 DEF Said, InProtocol
  <2>6. CASE WorkerFails(r) \/ WorkerKilled(r)
    <3>1. /\ worker[r] \notin {"none", "dead"} /\ worker'[r] = "dead"
          /\ step' = step /\ pipe' = pipe
      BY <2>1, <2>6 DEF WorkerFails, WorkerKilled, Alive, Turn, workers
    <3>2. QED
      BY <2>1, <2>3, <3>1 DEF Said, InProtocol, WorkerPoints
  <2>7. CASE WorkerReady(r) \/ WorkerValid(r) \/ WorkerDir(r)
             \/ WorkerAnnounce(r) \/ WorkerDone(r)
    <3>1. /\ <<worker[r], worker'[r]>> \in
               {<<"boot", "wait">>, <<"wait", "make">>, <<"open", "create">>,
                <<"announce", "fill">>, <<"create", "dead">>}
          /\ step' = step
          /\ worker[r] = "create" => step[r] > NumFiles
      BY <2>1, <2>7 DEF WorkerReady, WorkerValid, WorkerDir, WorkerAnnounce,
         WorkerDone, Turn
    <3>2. \E l \in Lines : pipe'[r] = Append(pipe[r], l)
      <4>1. pipe' = [pipe EXCEPT ![r] = Append(pipe[r], pipe'[r][Len(pipe[r]) + 1])]
            /\ pipe'[r][Len(pipe[r]) + 1] \in Lines
        BY <2>1, <2>7 DEF WorkerReady, WorkerValid, WorkerDir, WorkerAnnounce,
           WorkerDone, Says, Lines, Kept, Types2
      <4>2. QED
        BY <4>1 DEF Kept, Types2
    <3>3. step[r] <= NumFiles + 1
      BY <2>1 DEF InProtocol
    <3>4. Said(r)' \in Int /\ Said(r) + 1 <= Said(r)'
      BY <2>1, <3>1, <3>3 DEF Said
    <3>5. QED
      BY <2>4, <3>1, <3>2, <3>4
  <2>8. QED
    BY <2>5, <2>6, <2>7 DEF Work
<1>4. QED
  BY <1>1, <1>2, <1>3 DEF Bounded

\* The protocol is kept whatever an execution, its worker and the world do.
LEMMA BoundsHold == Spec => []Bounded
<1>1. Init => Bounded
  <2>1. ASSUME Init, NEW q \in Runs PROVE InProtocol(q)
    BY <2>1, PreparationAssumption DEF Init, InProtocol, Said
  <2>2. QED
    BY <2>1 DEF Init, Bounded
<1>2. IInv /\ Kept /\ Bounded /\ [Next]_vars => Bounded'
  <2>1. SUFFICES ASSUME IInv, Kept, Bounded, [Next]_vars PROVE Bounded'
    OBVIOUS
  <2>2. ASSUME NEW r \in Runs, Work(r) \/ WorkerKilled(r) PROVE Bounded'
    BY <2>1, <2>2, SayingKeepsBounds
  <2>3. ASSUME NEW r \in Runs, Spawn(r) PROVE Bounded'
    <3>1. /\ UNCHANGED <<nonce, step, exitOk, aborted, validated, done, pipe>>
          /\ worker[r] = "none" /\ worker'[r] \in {"none", "boot"}
          /\ \A q \in Runs : q # r => worker'[q] = worker[q]
      BY <2>1, <2>3 DEF Spawn, IInv, Types, Stages, Early, ledger, protocol
    <3>2. QED
      BY <2>1, <3>1 DEF Bounded, InProtocol, Said
  <2>4. ASSUME NEW r \in Runs, Execute(r) \/ Crash(r), ~Spawn(r) PROVE Bounded'
    <3>1. UNCHANGED <<nonce, worker, step, exitOk>>
      BY <2>4 DEF Execute, CheckDestination, Verify, DropLine, ReadReady,
         ReadValid, ReadDir, ReadFile, ReadDone, Abort, Close, InspectDir,
         InspectFile, Prepared, CleanupUnrecorded, CleanupOpen, CleanupCheck,
         CleanupUnlink, CleanupEmpty, CleanupRemoveDir, Crash, ledger, workers
    <3>2. /\ aborted' \subseteq Runs /\ validated' \subseteq Runs
          /\ done' \subseteq Runs
      BY <2>1, <2>4 DEF Bounded, Execute, CheckDestination, Verify, DropLine,
         ReadReady, ReadValid, ReadDir, ReadFile, ReadDone, Abort, Close,
         InspectDir, InspectFile, Prepared, CleanupUnrecorded, CleanupOpen,
         CleanupCheck, CleanupUnlink, CleanupEmpty, CleanupRemoveDir, Crash,
         Kill, protocol
    <3>3. \/ pipe' = pipe
          \/ pipe[r] # <<>> /\ pipe' = [pipe EXCEPT ![r] = Tail(@)]
      BY <2>4 DEF Execute, CheckDestination, Verify, DropLine, ReadReady,
         ReadValid, ReadDir, ReadFile, ReadDone, Reads, Abort, Close, InspectDir,
         InspectFile, Prepared, CleanupUnrecorded, CleanupOpen, CleanupCheck,
         CleanupUnlink, CleanupEmpty, CleanupRemoveDir, Crash
    <3>4. \A q \in Runs : \/ pipe'[q] = pipe[q]
                          \/ pipe[q] # <<>> /\ pipe'[q] = Tail(pipe[q])
      BY <2>1, <3>3 DEF Kept, Types2
    <3>5. QED
      BY <2>1, <3>1, <3>2, <3>4, ReadingKeepsBounds
  <2>5. CASE (\E v \in Revokers : RevokerVerify(v) \/ Revoke(v)) \/ Meddle
             \/ UNCHANGED vars
    BY <2>1, <2>5
    DEF RevokerVerify, Revoke, Meddle, vars, ledger, workers, protocol,
        Bounded, InProtocol, Said
  <2>6. QED
    BY <2>1, <2>2, <2>3, <2>4, <2>5 DEF Next
<1>3. QED
  BY <1>1, <1>2, PreparationInvariance, DestinationInvariance, PTL DEF Spec

\* Types, and a worker prints at most its own protocol: READY, VALID, DIR, one
\* line per file and DONE (worker.c:125-200), for any number of files.
THEOREM TypeCorrect == Spec => []TypeOK
<1>1. IInv /\ Kept /\ Bounded => TypeOK
  <2>1. SUFFICES ASSUME IInv, Kept, Bounded PROVE TypeOK
    OBVIOUS
  <2>2. ASSUME NEW q \in Runs
        PROVE  /\ step[q] \in 1..(NumFiles + 1) /\ Len(pipe[q]) <= NumFiles + 4
               /\ \A i \in 1..Len(pipe[q]) : pipe[q][i] \in Lines
    <3>1. InProtocol(q)
      BY <2>1 DEF Bounded
    <3>2. step[q] <= NumFiles + 1 /\ Len(pipe[q]) <= Said(q)
      BY <3>1 DEF InProtocol
    <3>3. /\ NumFiles \in Nat /\ step[q] \in Nat \ {0} /\ Len(pipe[q]) \in Nat
          /\ worker[q] \in {"announce", "fill"} => step[q] \in 1..NumFiles
      BY <2>1, Counts
    <3>4. Said(q) <= NumFiles + 4
      <4>1. Said(q) \in {0, 1, 2, step[q] + 2, step[q] + 3, NumFiles + 4}
        BY DEF Said
      <4>2. QED
        BY <3>2, <3>3, <4>1
    <3>5. QED
      BY <2>1, <3>1, <3>2, <3>3, <3>4, Counts DEF InProtocol
  <2>3. QED
    BY <2>1, <2>2 DEF TypeOK, IInv, Types, Kept, Types2, Bounded
<1>2. QED
  BY <1>1, PreparationInvariance, DestinationInvariance, BoundsHold, PTL
-----------------------------------------------------------------------------
(* An execution does not go round in circles.                               *)

Sane == IInv /\ Kept /\ Bounded

\* The three parts of the measure are natural numbers.
LEMMA MeasureIsNatural ==
  Sane => \A r \in Runs :
            Chapter(r) \in Nat /\ WorkLeft(r) \in Nat /\ Rest(r) \in Nat
<1> SUFFICES ASSUME Sane, NEW r \in Runs
             PROVE  Chapter(r) \in Nat /\ WorkLeft(r) \in Nat /\ Rest(r) \in Nat
  OBVIOUS
<1>1. Chapter(r) \in 0..9
  BY DEF Chapter
<1>2. /\ NumFiles \in Nat /\ step[r] \in Nat /\ step[r] <= NumFiles + 1
      /\ Len(pipe[r]) \in Nat
  BY Counts DEF Sane, Bounded, InProtocol
<1>3. WorkLeft(r) \in Nat
  <2>1. FilesLeft(r) \in Nat
    BY <1>2 DEF FilesLeft
  <2>2. WorkLeft(r) \in
          {3 * NumFiles + 6, 3 * NumFiles + 5, 3 * NumFiles + 4, 3 * NumFiles + 3,
           3 * FilesLeft(r) + 2, 3 * FilesLeft(r) + 1, 3 * FilesLeft(r), 0}
    BY DEF WorkLeft
  <2>3. \A n \in Nat : 3 * n \in Nat
    OBVIOUS
  <2>4. 3 * NumFiles \in Nat /\ 3 * FilesLeft(r) \in Nat
    BY <1>2, <2>1, <2>3
  <2>5. QED
    BY <2>2, <2>4
<1>4. Cardinality(todo[r]) \in Nat
  <2>1. IsFiniteSet(Files)
    BY <1>2, FS_Interval DEF Files
  <2>2. QED
    BY <2>1, FS_Subset, FS_CardinalityType DEF Sane, Kept, Types2
<1>5. Rest(r) \in Nat
  <2>1. Rest(r) \in {Len(pipe[r]) + 0, Len(pipe[r]) + 1,
                     2 * Cardinality(todo[r]) + 0, 2 * Cardinality(todo[r]) + 1}
    BY DEF Rest
  <2>2. QED
    BY <1>2, <1>4, <2>1
<1>6. QED
  BY <1>1, <1>3, <1>5

\* The executor's steps that end a chapter.
LEMMA ChapterEnds ==
  ASSUME Sane, NEW r \in Runs,
         \/ CheckDestination(r) \/ Verify(r) \/ Spawn(r) \/ Close(r)
         \/ InspectDir(r) \/ Prepared(r) \/ CleanupUnrecorded(r)
         \/ CleanupOpen(r) \/ CleanupEmpty(r) \/ CleanupRemoveDir(r) \/ Crash(r)
  PROVE  Spends(r)
<1>1. /\ pc \in [Runs \cup Revokers -> Points]
      /\ \A point : pc' = [pc EXCEPT ![r] = point] => pc'[r] = point
  BY DEF Sane, IInv, Types
<1>2. \/ pc[r] = "idle" /\ pc'[r] \in {"checked", "returned"}
      \/ pc[r] = "checked" /\ pc'[r] \in {"verified", "cleanup"}
      \/ pc[r] = "verified" /\ pc'[r] \in {"running", "cleanup"}
      \/ pc[r] = "running" /\ pc'[r] \in {"inspect", "cleanup"}
      \/ pc[r] = "inspect" /\ pc'[r] \in {"files", "cleanup"}
      \/ pc[r] = "files" /\ pc'[r] = "returned"
      \/ pc[r] = "cleanup" /\ pc'[r] \in {"remove", "returned"}
      \/ pc[r] = "remove" /\ pc'[r] \in {"rmdir", "returned"}
      \/ pc[r] = "rmdir" /\ pc'[r] = "returned"
      \/ pc[r] \in Points \ {"idle", "returned", "crashed"} /\ pc'[r] = "crashed"
  BY <1>1 DEF CheckDestination, Verify, Spawn, Close, InspectDir, Prepared,
     CleanupUnrecorded, CleanupOpen, CleanupEmpty, CleanupRemoveDir, Crash,
     Preserve, Finish, Goto
<1>3. QED
  BY <1>2 DEF Chapter, Spends, Points

\* Reading a line leaves one line less, and a kill happens once.
LEMMA LinesEnd ==
  ASSUME Sane, NEW r \in Runs,
         \/ DropLine(r) \/ ReadReady(r) \/ ReadValid(r) \/ ReadDir(r)
         \/ ReadFile(r) \/ ReadDone(r) \/ Abort(r)
  PROVE  Spends(r)
<1>1. pc[r] = "running" /\ UNCHANGED <<pc, worker, step>>
  BY DEF DropLine, ReadReady, ReadValid, ReadDir, ReadFile, ReadDone, Reads,
     Abort, workers
<1>2. Chapter(r)' = Chapter(r) /\ WorkLeft(r)' = WorkLeft(r)
  BY <1>1 DEF Chapter, WorkLeft, FilesLeft
<1>3. pipe[r] \in Seq(Printed) /\ Len(pipe[r]) \in Nat
  BY Counts DEF Sane
<1>4. CASE Abort(r)
  <2>1. pipe' = pipe /\ r \notin aborted /\ r \in aborted'
    BY <1>4 DEF Abort, Kill
  <2>2. QED
    BY <1>1, <1>2, <1>3, <2>1 DEF Rest, Spends
<1>5. CASE ~Abort(r)
  <2>1. pipe[r] # <<>> /\ pipe'[r] = Tail(pipe[r])
    BY <1>5 DEF DropLine, ReadReady, ReadValid, ReadDir, ReadFile, ReadDone,
       Reads, Sane, Kept, Types2
  <2>2. r \in aborted => r \in aborted'
    BY <1>5 DEF DropLine, ReadReady, ReadValid, ReadDir, ReadFile, ReadDone, Kill
  <2>3. Len(pipe'[r]) = Len(pipe[r]) - 1
    BY <1>3, <2>1
  <2>4. CASE r \in aborted
    BY <1>1, <1>2, <1>3, <2>2, <2>3, <2>4 DEF Rest, Spends
  <2>5. CASE r \notin aborted
    <3>1. Rest(r) = Len(pipe[r]) + 1
      BY <1>1, <2>5 DEF Rest
    <3>2. Rest(r)' \in {Len(pipe'[r]) + 0, Len(pipe'[r]) + 1}
      BY <1>1 DEF Rest
    <3>3. QED
      BY <1>2, <1>3, <2>3, <3>1, <3>2 DEF Spends
  <2>6. QED
    BY <2>4, <2>5
<1>6. QED
  BY <1>4, <1>5

\* Inspecting or removing a file leaves one file less.
LEMMA FilesEnd ==
  ASSUME Sane, NEW r \in Runs,
         InspectFile(r) \/ CleanupCheck(r) \/ CleanupUnlink(r)
  PROVE  Spends(r)
<1>1. UNCHANGED <<worker, step>>
  BY DEF InspectFile, CleanupCheck, CleanupUnlink, workers
<1>2. WorkLeft(r)' = WorkLeft(r)
  BY <1>1 DEF WorkLeft, FilesLeft
<1>3. /\ pc \in [Runs \cup Revokers -> Points]
      /\ todo \in [Runs -> SUBSET Files]
      /\ pc[r] = "unlink" => todo[r] # {}
  BY DEF Sane, IInv, Types, Kept, Types2, Removing
<1>4. todo[r] # {}
  BY <1>3 DEF InspectFile, CleanupCheck, CleanupUnlink
<1>5. /\ Least(todo[r]) \in todo[r]
      /\ Cardinality(todo[r] \ {Least(todo[r])}) = Cardinality(todo[r]) - 1
      /\ Cardinality(todo[r]) \in Nat
  <2>1. IsFiniteSet(todo[r])
    <3>1. IsFiniteSet(Files)
      BY PreparationAssumption, FS_Interval DEF Files
    <3>2. QED
      BY <1>3, <3>1, FS_Subset
  <2>2. Least(todo[r]) \in todo[r]
    BY <1>3, <1>4, LeastIsIn
  <2>3. QED
    BY <2>1, <2>2, FS_RemoveElement, FS_CardinalityType
<1>6. \/ pc[r] = "files" /\ pc'[r] = "cleanup"
      \/ pc[r] \in {"remove", "unlink"} /\ pc'[r] = "returned"
      \/ /\ pc[r] = "files" /\ pc'[r] = "files"
         /\ todo'[r] = todo[r] \ {Least(todo[r])}
      \/ pc[r] = "remove" /\ pc'[r] = "unlink" /\ todo'[r] = todo[r]
      \/ /\ pc[r] = "unlink" /\ pc'[r] = "remove"
         /\ todo'[r] = todo[r] \ {Least(todo[r])}
  BY <1>3 DEF InspectFile, CleanupCheck, CleanupUnlink, Preserve, Finish, Goto
<1>7. CASE \/ pc[r] = "files" /\ pc'[r] = "cleanup"
           \/ pc[r] \in {"remove", "unlink"} /\ pc'[r] = "returned"
  BY <1>7 DEF Chapter, Spends
<1>8. CASE pc[r] = "files" /\ pc'[r] = "files"
  <2>1. Cardinality(todo[r])' = Cardinality(todo[r]) - 1
    BY <1>5, <1>6, <1>8
  <2>2. /\ Rest(r) = 2 * Cardinality(todo[r]) + 0
        /\ Rest(r)' = 2 * Cardinality(todo[r])' + 0
    BY <1>8 DEF Rest
  <2>3. Rest(r)' < Rest(r)
    BY <1>5, <2>1, <2>2
  <2>4. QED
    BY <1>2, <1>8, <2>3 DEF Chapter, Spends
<1>9. CASE pc[r] = "remove" /\ pc'[r] = "unlink"
  BY <1>2, <1>5, <1>6, <1>9 DEF Chapter, Rest, Spends
<1>10. CASE pc[r] = "unlink" /\ pc'[r] = "remove"
  <2>1. Cardinality(todo[r])' = Cardinality(todo[r]) - 1
    BY <1>5, <1>6, <1>10
  <2>2. /\ Rest(r) = 2 * Cardinality(todo[r]) + 0
        /\ Rest(r)' = 2 * Cardinality(todo[r])' + 1
    BY <1>10 DEF Rest
  <2>3. Rest(r)' < Rest(r)
    BY <1>5, <2>1, <2>2
  <2>4. QED
    BY <1>2, <1>10, <2>3 DEF Chapter, Spends
<1>11. QED
  BY <1>6, <1>7, <1>8, <1>9, <1>10

\* The worker goes on, and each turn of its loop leaves one file less.
LEMMA WorkEnds ==
  ASSUME Sane, NEW r \in Runs, Work(r) \/ WorkerKilled(r)
  PROVE  Spends(r)
<1>1. pc' = pc
  BY DEF Work, WorkerReady, WorkerValid, WorkerMkdir, WorkerDir, WorkerCreate,
     WorkerAnnounce, WorkerFill, WorkerDone, WorkerFails, WorkerKilled
<1>2. Chapter(r)' = Chapter(r)
  BY <1>1 DEF Chapter
<1>3. /\ NumFiles \in Nat /\ step[r] \in Nat /\ step[r] <= NumFiles + 1
      /\ worker[r] \in {"announce", "fill"} => step[r] \in 1..NumFiles
  BY Counts DEF Sane, Bounded, InProtocol
<1>4. /\ worker \in [Runs -> WorkerPoints] /\ step \in [Runs -> Nat \ {0}]
  BY DEF Sane, IInv, Types, Kept, Types2
<1>5. CASE WorkerFails(r) \/ WorkerKilled(r)
  <2>1. worker[r] \in WorkerPoints \ {"none", "dead"} /\ worker'[r] = "dead"
    BY <1>4, <1>5 DEF WorkerFails, WorkerKilled, Alive, Turn
  <2>2. QED
    BY <1>2, <1>3, <2>1 DEF WorkLeft, FilesLeft, Spends, WorkerPoints
<1>6. CASE WorkerFill(r)
  <2>1. /\ worker[r] = "fill" /\ worker'[r] = "create"
        /\ step'[r] = step[r] + 1
    BY <1>4, <1>6 DEF WorkerFill, Turn
  <2>2. QED
    BY <1>2, <1>3, <2>1 DEF WorkLeft, FilesLeft, Spends
<1>7. CASE \/ WorkerReady(r) \/ WorkerValid(r) \/ WorkerMkdir(r) \/ WorkerDir(r)
           \/ WorkerCreate(r) \/ WorkerAnnounce(r) \/ WorkerDone(r)
  <2>1. /\ <<worker[r], worker'[r]>> \in
             {<<"boot", "wait">>, <<"wait", "make">>, <<"make", "open">>,
              <<"open", "create">>, <<"create", "announce">>,
              <<"announce", "fill">>, <<"create", "dead">>}
        /\ step' = step
    BY <1>4, <1>7 DEF WorkerReady, WorkerValid, WorkerMkdir, WorkerDir,
       WorkerCreate, WorkerAnnounce, WorkerDone, Turn
  <2>2. worker[r] = "open" => step[r] >= 1
    BY <1>4
  <2>3. QED
    BY <1>2, <1>3, <2>1, <2>2 DEF WorkLeft, FilesLeft, Spends
<1>8. QED
  BY <1>5, <1>6, <1>7 DEF Work

\* What one execution does is no business of another.
LEMMA OthersKeepTheirs ==
  ASSUME Sane, NEW r \in Runs, NEW q \in Runs, q # r,
         Execute(r) \/ Work(r) \/ WorkerKilled(r) \/ Crash(r)
  PROVE  UNCHANGED <<Chapter(q), WorkLeft(q), Rest(q)>>
<1>1. /\ pc \in [Runs \cup Revokers -> Points]
      /\ worker \in [Runs -> WorkerPoints] /\ step \in [Runs -> Nat \ {0}]
      /\ pipe \in [Runs -> Seq(Printed)] /\ todo \in [Runs -> SUBSET Files]
  BY DEF Sane, IInv, Types, Kept, Types2
<1>2. pc'[q] = pc[q] /\ todo'[q] = todo[q]
  BY <1>1 DEF Execute, CheckDestination, Verify, Spawn, DropLine, ReadReady,
     ReadValid, ReadDir, ReadFile, ReadDone, Abort, Close, InspectDir,
     InspectFile, Prepared, CleanupUnrecorded, CleanupOpen, CleanupCheck,
     CleanupUnlink, CleanupEmpty, CleanupRemoveDir, Crash, Preserve, Finish,
     Goto, Work, WorkerReady, WorkerValid, WorkerMkdir, WorkerDir, WorkerCreate,
     WorkerAnnounce, WorkerFill, WorkerDone, WorkerFails, WorkerKilled
<1>3. worker'[q] = worker[q] /\ step'[q] = step[q]
  BY <1>1 DEF Execute, CheckDestination, Verify, Spawn, DropLine, ReadReady,
     ReadValid, ReadDir, ReadFile, ReadDone, Abort, Close, InspectDir,
     InspectFile, Prepared, CleanupUnrecorded, CleanupOpen, CleanupCheck,
     CleanupUnlink, CleanupEmpty, CleanupRemoveDir, Crash, workers, Work,
     WorkerReady, WorkerValid, WorkerMkdir, WorkerDir, WorkerCreate,
     WorkerAnnounce, WorkerFill, WorkerDone, WorkerFails, WorkerKilled, Turn
<1>4. pipe'[q] = pipe[q] /\ (q \in aborted' <=> q \in aborted)
  BY <1>1 DEF Execute, CheckDestination, Verify, Spawn, DropLine, ReadReady,
     ReadValid, ReadDir, ReadFile, ReadDone, Reads, Kill, Abort, Close,
     InspectDir, InspectFile, Prepared, CleanupUnrecorded, CleanupOpen,
     CleanupCheck, CleanupUnlink, CleanupEmpty, CleanupRemoveDir, Crash, Work,
     WorkerReady, WorkerValid, WorkerMkdir, WorkerDir, WorkerCreate,
     WorkerAnnounce, WorkerFill, WorkerDone, WorkerFails, WorkerKilled, Says
<1>5. QED
  BY <1>2, <1>3, <1>4 DEF Chapter, WorkLeft, FilesLeft, Rest

\* Each step of an execution or its worker leaves it less to do and nothing
\* ever adds to it, for any number of executions, revocations and files
\* (executor.ts:318-424, 488-507, worker.c:125-200): what Returns needs beside
\* fairness.
THEOREM NothingGoesRound == Spec => EachStepSpends
<1>1. Sane /\ [Next]_vars =>
        [ \A r \in Runs :
            /\ Execute(r) \/ Work(r) \/ WorkerKilled(r) \/ Crash(r) => Spends(r)
            /\ Spends(r) \/ UNCHANGED <<Chapter(r), WorkLeft(r), Rest(r)>> ]_vars
  <2>1. SUFFICES ASSUME Sane, Next, NEW r \in Runs
                 PROVE  /\ \/ Execute(r) \/ Work(r) \/ WorkerKilled(r) \/ Crash(r)
                           => Spends(r)
                        /\ Spends(r) \/ UNCHANGED <<Chapter(r), WorkLeft(r), Rest(r)>>
    OBVIOUS
  <2>2. ASSUME NEW q \in Runs, Execute(q) \/ Work(q) \/ WorkerKilled(q) \/ Crash(q)
        PROVE  Spends(q)
    BY <2>1, <2>2, ChapterEnds, LinesEnd, FilesEnd, WorkEnds DEF Execute
  <2>3. CASE (\E v \in Revokers : RevokerVerify(v) \/ Revoke(v)) \/ Meddle
    <3>1. /\ pc'[r] = pc[r]
          /\ UNCHANGED <<worker, step, pipe, aborted, todo>>
      BY <2>1, <2>3, PreparationAssumption
      DEF RevokerVerify, Revoke, Meddle, Finish, Goto, workers, Sane, IInv, Types
    <3>2. UNCHANGED <<Chapter(r), WorkLeft(r), Rest(r)>>
      BY <3>1 DEF Chapter, WorkLeft, FilesLeft, Rest
    <3>3. QED
      BY <2>1, <2>2, <3>2
  <2>4. ASSUME NEW q \in Runs, Execute(q) \/ Work(q) \/ WorkerKilled(q) \/ Crash(q)
        PROVE  Spends(r) \/ UNCHANGED <<Chapter(r), WorkLeft(r), Rest(r)>>
    <3>1. CASE q = r
      BY <2>2, <2>4, <3>1
    <3>2. CASE q # r
      BY <2>1, <2>4, <3>2, OthersKeepTheirs
    <3>3. QED
      BY <3>1, <3>2
  <2>5. QED
    BY <2>1, <2>2, <2>3, <2>4 DEF Next
<1>2. Spec => []Sane
  BY PreparationInvariance, DestinationInvariance, BoundsHold, PTL DEF Sane
<1>3. QED
  BY <1>1, <1>2, PTL DEF Spec, EachStepSpends
=============================================================================
