----------------------- MODULE SecureTransactionProofs -----------------------
(***************************************************************************)
(* The safety of the staged transaction for every layout, every number of  *)
(* components and directories and every set of plans: IInv is inductive,   *)
(* each property of SecureTransaction follows from it, and every step is one*)
(* that AllOrNothing, the abstract promise, allows.                        *)
(***************************************************************************)
EXTENDS SecureTransaction, FiniteSetTheorems, WellFoundedInduction, TLAPS

Staging == {"stage", "backup", "write", "settle", "identify"}
Committing == {"commit", "rename", "confirm"}
Forward == {"preflight", "containers"} \cup Staging \cup Committing
UndoingOne == {"reread", "unlink", "restage", "restore"}
Finished == {"close", "done"}

Reads(c) == plan[c].capturePrior \/ plan[c].forceBackup

\* Where the transaction is, and what its errors say about that.
Located ==
  /\ pc \in Staging \ {"stage"} => cur \in Writes
  /\ pc = "rename" => cur \in staged
  /\ pc = "confirm" => cur \in committed
  /\ pc \in UndoingOne => cur \in undo
  /\ pc \in Forward => errors = {}
  /\ Undoing => "abort" \in errors
  /\ "stop" \in errors => pc \in Finished \cup {"crashed"}
  /\ pc \in Finished /\ "abort" \notin errors => committed = Writes
  /\ pc \in Finished /\ "abort" \in errors /\ "stop" \notin errors => undo = {}
  /\ pc \in Finished /\ "stop" \notin errors /\ "rollback" \notin errors
       => staged = {}

\* Who is staged, identified, committed and still to undo.
Ledger ==
  /\ pc \in {"preflight", "containers"} =>
       staged = {} /\ identified = {} /\ committed = {}
  /\ pc \in Staging =>
       /\ committed = {} /\ identified = {c \in Writes : c < cur}
       /\ staged = IF pc = "identify" THEN identified \cup {cur} ELSE identified
  /\ pc \in Committing => identified = Writes /\ staged \cup committed = Writes
  /\ staged \subseteq Writes /\ identified \subseteq Writes
  /\ committed \subseteq identified /\ undo \subseteq committed
  /\ staged \cap committed = {}

\* What the temporaries hold.
Temporaries ==
  /\ pc \in {"settle", "identify"} => temp[cur] = "new"
  /\ pc \in Staging => \A c \in identified : temp[c] = "new"
  /\ pc \in Committing => \A c \in staged : temp[c] = "new"
  /\ \A c \in committed : temp[c] = "none"
  /\ \A c \in identified \ (staged \cup committed) :
       temp[c] = "none" \/ "cleanup" \in errors
  /\ \A c \in Comps : rtemp[c] # "none" =>
       \/ "stop" \in errors \/ pc = "crashed"
       \/ pc = "restore" /\ c = cur

\* What was read before staging, and what a forced write keeps of it.
Captures ==
  /\ \A c \in Comps : captured[c] # "none" /\ c \notin touched
                        => captured[c] = Before(c)
  /\ pc \in Staging \ {"stage"} /\ Reads(cur) => captured[cur] # "none"
  /\ pc \in {"write", "settle", "identify"} /\ plan[cur].forceBackup
       => backup[cur] = captured[cur]
  /\ \A c \in identified : Reads(c) => captured[c] # "none"
  /\ \A c \in identified : plan[c].forceBackup => backup[c] = captured[c]

\* What the targets hold.
Targets ==
  /\ \A c \in Comps : target[c] = "new" =>
       c \in identified /\ (c \in committed \/ "stop" \in errors)
  /\ \A c \in Comps : target[c] = "edit" \/ captured[c] = "edit" => c \in touched
  /\ \A c \in Comps \ (touched \cup committed) :
       "stop" \notin errors => target[c] = Before(c)
  /\ \A c \in committed \ touched : "abort" \notin errors => target[c] = "new"
  /\ \A c \in committed \ (touched \cup undo) :
       "abort" \in errors /\ "stop" \notin errors /\ Recoverable(c)
         => target[c] = Before(c)

\* The component the rollback is undoing.
UndoOne ==
  /\ pc = "unlink" => plan[cur].wasAbsent
  /\ pc \in {"restage", "restore"} =>
       ~plan[cur].wasAbsent /\ captured[cur] # "none"
  /\ pc \in {"unlink", "restage", "restore"} =>
       target[cur] = "new" \/ cur \in late

IInv ==
  /\ TypeOK
  /\ Located
  /\ Ledger
  /\ Temporaries
  /\ Captures
  /\ Targets
  /\ UndoOne

-----------------------------------------------------------------------------
(* The parts of an action every proof looks into.                            *)

USE DEF Abort, AbortAfter, AbortUnknown, Stop, Proceed, fsVars, files,
     handles, ledger, txVars, history, vars

\* The bounds of the layout, as numbers.
LEMMA Layout ==
  /\ NumComps \in Nat /\ NumAncestors \in Nat /\ NumDirs \in Nat
  /\ NumAncestors < NumDirs /\ Candidates \in Nat
BY LayoutAssumption

\* Wherever the engine works on one component, cur is that component.
LEMMA WorkingOnOne ==
  ASSUME TypeOK, Located, Ledger
  PROVE  pc \in (Staging \ {"stage"}) \cup {"rename", "confirm"} \cup UndoingOne
           => cur \in Comps
BY DEF TypeOK, Located, Ledger, Writes, Staging, UndoingOne

\* In the two directory loops, cur is a directory.
LEMMA PathPosition ==
  ASSUME TypeOK, (pc = "preflight" /\ cur <= NumAncestors) \/ cur <= NumDirs
  PROVE  cur \in Dirs
BY Layout DEF TypeOK, Dirs

\* The components before position n, as the staging loop advances.
LEMMA Prefix ==
  ASSUME NEW n \in Nat \ {0}, NEW W \in SUBSET Comps
  PROVE  /\ n = 1 => {c \in W : c < n} = {}
         /\ n > NumComps => {c \in W : c < n} = W
         /\ n \in W => {c \in W : c < n} \cup {n} = {c \in W : c < n + 1}
         /\ n \notin W => {c \in W : c < n} = {c \in W : c < n + 1}
<1>1. W \subseteq Nat \ {0} /\ \A c \in W : c <= NumComps  BY DEF Comps
<1>2. \A c \in W : c < n + 1 <=> c < n \/ c = n  BY <1>1
<1>3. n = 1 => \A c \in W : ~(c < n)  BY <1>1
<1>4. n > NumComps => \A c \in W : c < n  BY <1>1, Layout
<1> QED  BY <1>2, <1>3, <1>4

\* The plan is read-only, and with it everything computed from it.
LEMMA PlanIsFixed ==
  ASSUME Next
  PROVE  plan' = plan /\ Writes' = Writes
<1>1. plan' = plan
  BY DEF Next, Step, World, Edit, LoseProof, Crash, OpenAncestor,
       PreflightDone, OpenContainer, SkipContainer, CreateContainer,
       ContainersDone, SkipComponent, Capture, BackupRefused, BackupWritten,
       BackupExhausted, StageWrite, StageSettle, StageIdentify, Recheck,
       PreRename, RenameApplied, RenameNotApplied, RenameUnknown, PostRename,
       CommitDone, RollbackGate, RollbackReread, RollbackUnlink,
       RollbackRestage, RollbackRestore, CleanupTemp, RemoveCreated,
       RollbackDone, Close, Return
<1> QED  BY <1>1 DEF Writes, needsWrite

-----------------------------------------------------------------------------
(* The initial states.                                                       *)

\* The invariant holds when a transaction starts.
LEMMA Initially == Init => IInv
<1> SUFFICES ASSUME Init PROVE IInv  OBVIOUS
<1>1. plan \in [Comps -> Component]  BY LayoutAssumption DEF Init
<1>2. dir \in [Dirs -> {"absent", "safe", "unsafe"}]  BY DEF Init
<1>3. target \in [Comps -> Contents]  BY <1>1 DEF Init, Before, Contents
<1>4. /\ temp \in [Comps -> {"none", "partial", "new"}]
      /\ rtemp \in [Comps -> Contents \cup {"partial"}]
      /\ backup \in [Comps -> Contents \cup {"partial"}]
      /\ captured \in [Comps -> Contents]
  BY DEF Init, Contents
<1>5. TypeOK
  <2>1. pc \in Points  BY DEF Init, Points
  <2>2. cur \in Nat \ {0} /\ tries \in 0..Candidates  BY Layout DEF Init
  <2>3. /\ held \subseteq Dirs /\ created \subseteq Dirs
        /\ staged \subseteq Comps /\ identified \subseteq Comps
        /\ committed \subseteq Comps /\ undo \subseteq Comps
        /\ touched \subseteq Comps /\ late \subseteq Comps
        /\ errors \subseteq Kinds /\ sameNode \in BOOLEAN
    BY DEF Init
  <2> QED  BY <1>1, <1>2, <1>3, <1>4, <2>1, <2>2, <2>3 DEF TypeOK
<1>6. Located /\ Ledger
  BY DEF Init, Located, Ledger, Staging, Committing, UndoingOne, Undoing,
         Finished
<1>7. Temporaries /\ Captures /\ Targets /\ UndoOne
  BY DEF Init, Temporaries, Captures, Targets, UndoOne, Before, Staging,
         Committing
<1> QED  BY <1>5, <1>6, <1>7 DEF IInv

-----------------------------------------------------------------------------
(* The engine's own steps.                                                   *)

\* No step of the engine leaves the types.
LEMMA TypeStep ==
  ASSUME TypeOK, Located, Ledger, Step
  PROVE  TypeOK'
<1>0. plan' = plan /\ Writes' = Writes  BY PlanIsFixed DEF Next
<1>1. CASE OpenAncestor
  <2>1. cur' \in Nat \ {0} /\ tries' \in 0..Candidates
    BY <1>1, Layout DEF TypeOK, Comps, Least, Greatest, OpenAncestor
  <2>2. held' \subseteq Dirs /\ created' \subseteq Dirs
    BY <1>1, PathPosition DEF TypeOK, OpenAncestor
  <2>3. pc' \in Points /\ errors' \subseteq Kinds /\ undo' \subseteq Comps
    BY <1>1 DEF TypeOK, Points, Kinds, OpenAncestor
  <2> QED
    BY <1>1, <2>1, <2>2, <2>3 DEF TypeOK, OpenAncestor
<1>2. CASE PreflightDone
  BY <1>2, Layout, WorkingOnOne DEF PreflightDone, TypeOK, CandidatesLeft,
       Contents, Comps, Kinds, Points, Staging
<1>3. CASE OpenContainer
  <2>1. cur' \in Nat \ {0} /\ tries' \in 0..Candidates
    BY <1>3, Layout DEF TypeOK, Comps, Least, Greatest, OpenContainer
  <2>2. held' \subseteq Dirs /\ created' \subseteq Dirs
    BY <1>3, PathPosition DEF TypeOK, OpenContainer
  <2>3. pc' \in Points /\ errors' \subseteq Kinds /\ undo' \subseteq Comps
    BY <1>3 DEF TypeOK, Points, Kinds, OpenContainer
  <2> QED
    BY <1>3, <2>1, <2>2, <2>3 DEF TypeOK, OpenContainer
<1>4. CASE SkipContainer
  BY <1>4, Layout, WorkingOnOne DEF SkipContainer, TypeOK, CandidatesLeft,
       Contents, Comps, Kinds, Points, Staging
<1>5. CASE CreateContainer
  <2>1. cur' \in Nat \ {0} /\ tries' \in 0..Candidates
    BY <1>5, Layout DEF TypeOK, Comps, Least, Greatest, CreateContainer
  <2>2. held' \subseteq Dirs /\ created' \subseteq Dirs
    BY <1>5, PathPosition DEF TypeOK, CreateContainer
  <2>3. pc' \in Points /\ errors' \subseteq Kinds /\ undo' \subseteq Comps
    BY <1>5 DEF TypeOK, Points, Kinds, CreateContainer
  <2> QED
    BY <1>5, <2>1, <2>2, <2>3 DEF TypeOK, CreateContainer
<1>6. CASE ContainersDone
  BY <1>6, Layout, WorkingOnOne DEF ContainersDone, TypeOK, CandidatesLeft,
       Contents, Comps, Kinds, Points, Staging
<1>7. CASE SkipComponent
  BY <1>7, Layout, WorkingOnOne DEF SkipComponent, TypeOK, CandidatesLeft,
       Contents, Comps, Kinds, Points, Staging
<1>8. CASE Capture
  <2>1. cur' \in Nat \ {0} /\ tries' \in 0..Candidates
    BY <1>8, Layout DEF TypeOK, Comps, Least, Greatest, Capture
  <2>2. captured' \in [Comps -> Contents]
    BY <1>8, Layout DEF TypeOK, Comps, Capture
  <2>3. pc' \in Points /\ errors' \subseteq Kinds /\ undo' \subseteq Comps
    BY <1>8 DEF TypeOK, Points, Kinds, Capture
  <2> QED
    BY <1>8, <2>1, <2>2, <2>3 DEF TypeOK, Capture
<1>9. CASE BackupRefused
  BY <1>9, Layout, WorkingOnOne DEF BackupRefused, TypeOK, CandidatesLeft,
       Contents, Comps, Kinds, Points, Staging
<1>10. CASE BackupWritten
  BY <1>10, Layout, WorkingOnOne DEF BackupWritten, TypeOK, CandidatesLeft,
       Contents, Comps, Kinds, Points, Staging
<1>11. CASE BackupExhausted
  BY <1>11, Layout, WorkingOnOne DEF BackupExhausted, TypeOK, CandidatesLeft,
       Contents, Comps, Kinds, Points, Staging
<1>12. CASE StageWrite
  <2>1. temp' \in [Comps -> {"none", "partial", "new"}]
    BY <1>12, WorkingOnOne DEF StageWrite, TypeOK, Staging
  <2>2. pc' \in Points /\ errors' \subseteq Kinds /\ undo' \subseteq Comps
    BY <1>12 DEF TypeOK, Points, Kinds, StageWrite
  <2> QED
    BY <1>12, <2>1, <2>2 DEF TypeOK, StageWrite
<1>13. CASE StageSettle
  <2>1. staged' \subseteq Comps
    BY <1>13, WorkingOnOne DEF StageSettle, TypeOK, Staging
  <2>2. pc' \in Points /\ errors' \subseteq Kinds /\ undo' \subseteq Comps
    BY <1>13 DEF TypeOK, Points, Kinds, StageSettle
  <2> QED
    BY <1>13, <2>1, <2>2 DEF TypeOK, StageSettle
<1>14. CASE StageIdentify
  <2>1. cur' \in Nat \ {0} /\ tries' \in 0..Candidates
    BY <1>14, Layout DEF TypeOK, Comps, Least, Greatest, StageIdentify
  <2>2. identified' \subseteq Comps
    BY <1>14, WorkingOnOne DEF TypeOK, Staging, StageIdentify
  <2>3. pc' \in Points /\ errors' \subseteq Kinds /\ undo' \subseteq Comps
    BY <1>14 DEF TypeOK, Points, Kinds, StageIdentify
  <2> QED
    BY <1>14, <2>1, <2>2, <2>3 DEF TypeOK, StageIdentify
<1>15. CASE Recheck
  BY <1>15, Layout, WorkingOnOne DEF Recheck, TypeOK, CandidatesLeft,
       Contents, Comps, Kinds, Points, Staging
<1>16. CASE PreRename
  <2>1. cur' \in Nat \ {0} /\ tries' \in 0..Candidates
    BY <1>16, Layout DEF TypeOK, Comps, Least, Greatest, PreRename
  <2>2. pc' \in Points /\ errors' \subseteq Kinds /\ undo' \subseteq Comps
    BY <1>16 DEF TypeOK, Points, Kinds, PreRename
  <2> QED
    BY <1>16, <2>1, <2>2 DEF TypeOK, PreRename
<1>17. CASE RenameApplied
  <2>1. cur \in Comps
    BY <1>17, WorkingOnOne DEF RenameApplied
  <2>2. /\ target' \in [Comps -> Contents]
        /\ temp' \in [Comps -> {"none", "partial", "new"}]
    BY <1>17, <2>1 DEF RenameApplied, TypeOK, Contents
  <2>3. pc' \in Points /\ errors' \subseteq Kinds /\ undo' \subseteq Comps
    BY <1>17, <2>1 DEF TypeOK, Points, Kinds, RenameApplied
  <2>4. staged' \subseteq Comps /\ committed' \subseteq Comps
    BY <1>17, <2>1 DEF TypeOK, RenameApplied
  <2> QED
    BY <1>17, <2>2, <2>3, <2>4 DEF TypeOK, RenameApplied
<1>18. CASE RenameNotApplied
  BY <1>18, Layout, WorkingOnOne DEF RenameNotApplied, TypeOK,
       CandidatesLeft, Contents, Comps, Kinds, Points, Staging
<1>19. CASE RenameUnknown
  <2>1. cur \in Comps
    BY <1>19, WorkingOnOne DEF RenameUnknown
  <2>2. /\ target' \in [Comps -> Contents]
        /\ temp' \in [Comps -> {"none", "partial", "new"}]
    BY <1>19, <2>1 DEF RenameUnknown, TypeOK, Contents
  <2>3. pc' \in Points /\ errors' \subseteq Kinds /\ undo' \subseteq Comps
    BY <1>19 DEF TypeOK, Points, Kinds, RenameUnknown
  <2> QED
    BY <1>19, <2>2, <2>3 DEF TypeOK, RenameUnknown
<1>20. CASE PostRename
  BY <1>20, Layout, WorkingOnOne DEF PostRename, TypeOK, CandidatesLeft,
       Contents, Comps, Kinds, Points, Staging
<1>21. CASE CommitDone
  BY <1>21, Layout, WorkingOnOne DEF CommitDone, TypeOK, CandidatesLeft,
       Contents, Comps, Kinds, Points, Staging
<1>22. CASE RollbackReread \/ RollbackUnlink
  <2>1. target' \in [Comps -> Contents] /\ sameNode' \in BOOLEAN
    BY <1>22, WorkingOnOne DEF TypeOK, Contents, UndoingOne, RollbackReread,
         RollbackUnlink
  <2>2. pc' \in Points /\ errors' \subseteq Kinds /\ undo' \subseteq Comps
    BY <1>22 DEF TypeOK, Points, Kinds, RollbackReread, RollbackUnlink
  <2>3. UNCHANGED <<plan, dir, files, cur, tries, handles, ledger, history>>
    BY <1>22 DEF RollbackReread, RollbackUnlink
  <2> QED
    BY <2>1, <2>2, <2>3 DEF TypeOK
<1>23. CASE RollbackGate
  <2>1. cur' \in Nat \ {0} /\ tries' \in 0..Candidates
    BY <1>23, Layout DEF TypeOK, Comps, Least, Greatest, RollbackGate
  <2>2. pc' \in Points /\ errors' \subseteq Kinds /\ undo' \subseteq Comps
    BY <1>23 DEF TypeOK, Points, Kinds, RollbackGate
  <2> QED
    BY <1>23, <2>1, <2>2 DEF TypeOK, RollbackGate
<1>24. CASE RollbackRestage
  <2>1. rtemp' \in [Comps -> Contents \cup {"partial"}]
    BY <1>24, WorkingOnOne DEF TypeOK, Contents, UndoingOne, RollbackRestage
  <2>2. pc' \in Points /\ errors' \subseteq Kinds /\ undo' \subseteq Comps
    BY <1>24 DEF TypeOK, Points, Kinds, RollbackRestage
  <2>3. UNCHANGED <<plan, dir, target, temp, backup, cur, tries, handles, ledger,
                  sameNode, history>>
    BY <1>24 DEF RollbackRestage
  <2> QED
    BY <2>1, <2>2, <2>3 DEF TypeOK
<1>25. CASE RollbackRestore
  <2>1. rtemp' \in [Comps -> Contents \cup {"partial"}]
    BY <1>25, WorkingOnOne DEF TypeOK, Contents, UndoingOne, RollbackRestore
  <2>2. target' \in [Comps -> Contents]
    BY <1>25, WorkingOnOne DEF TypeOK, UndoingOne, RollbackRestore
  <2>3. pc' \in Points /\ errors' \subseteq Kinds /\ undo' \subseteq Comps
    BY <1>25 DEF TypeOK, Points, Kinds, RollbackRestore
  <2>4. UNCHANGED <<plan, dir, temp, backup, cur, tries, handles, ledger,
                  sameNode, history>>
    BY <1>25 DEF RollbackRestore
  <2> QED
    BY <2>1, <2>2, <2>3, <2>4 DEF TypeOK
<1>26. CASE CleanupTemp
  <2>1. temp' \in [Comps -> {"none", "partial", "new"}]
    BY <1>26 DEF CleanupTemp, TypeOK
  <2>2. pc' \in Points /\ errors' \subseteq Kinds /\ staged' \subseteq Comps
    BY <1>26 DEF TypeOK, Points, Kinds, CleanupTemp
  <2>3. UNCHANGED <<plan, dir, target, rtemp, backup, cur, tries, handles,
                    captured, identified, committed, undo, sameNode, history>>
    BY <1>26 DEF CleanupTemp
  <2> QED
    BY <2>1, <2>2, <2>3 DEF TypeOK
<1>27. CASE RemoveCreated
  BY <1>27 DEF RemoveCreated, TypeOK
<1>28. CASE RollbackDone \/ Close \/ Return
  BY <1>28 DEF RollbackDone, Close, Return, TypeOK, Kinds, Points
<1> QED  BY <1>1, <1>2, <1>3, <1>4, <1>5, <1>6, <1>7, <1>8, <1>9, <1>10,
     <1>11, <1>12, <1>13, <1>14, <1>15, <1>16, <1>17, <1>18, <1>19, <1>20,
     <1>21, <1>22, <1>23, <1>24, <1>25, <1>26, <1>27, <1>28 DEF Step

\* Every step agrees with what its program point says of the errors and of the
\* component under work.
LEMMA LocatedStep ==
  ASSUME TypeOK, Located, Ledger, Step
  PROVE  Located'
<1>0. plan' = plan /\ Writes' = Writes  BY PlanIsFixed DEF Next
<1>1. CASE OpenAncestor \/ PreflightDone \/ OpenContainer \/ SkipContainer
           \/ CreateContainer \/ ContainersDone
  BY <1>0, <1>1, WorkingOnOne DEF OpenAncestor, PreflightDone, OpenContainer,
       SkipContainer, CreateContainer, ContainersDone, Located, Ledger,
       Staging, Committing, Forward, UndoingOne, Finished, Undoing, Writes,
       needsWrite, Least, Greatest, AllRenamed, anyWrite
<1>2. CASE SkipComponent \/ BackupRefused \/ BackupWritten \/ BackupExhausted
           \/ StageWrite \/ StageSettle \/ StageIdentify
  BY <1>0, <1>2, WorkingOnOne DEF SkipComponent, BackupRefused,
       BackupWritten, BackupExhausted, StageWrite, StageSettle,
       StageIdentify, Located, Ledger, Staging, Committing, Forward,
       UndoingOne, Finished, Undoing, Writes, needsWrite, Least, Greatest,
       AllRenamed, anyWrite
<1>3. CASE Capture
  <2>1. cur \in Writes
    BY <1>3, Layout DEF Capture, TypeOK, Comps, Writes, needsWrite
  <2> QED
    BY <1>0, <1>3, <2>1 DEF Capture, Located, Ledger, Staging, Committing,
         Forward, UndoingOne, Finished, Undoing
<1>4. CASE Recheck \/ PreRename \/ RenameApplied \/ RenameNotApplied
           \/ RenameUnknown \/ PostRename \/ CommitDone
  BY <1>0, <1>4, WorkingOnOne DEF Recheck, PreRename, RenameApplied,
       RenameNotApplied, RenameUnknown, PostRename, CommitDone, Located,
       Ledger, Staging, Committing, Forward, UndoingOne, Finished, Undoing,
       Writes, needsWrite, Least, Greatest, AllRenamed, anyWrite
<1>5. CASE RollbackGate \/ RollbackReread \/ RollbackUnlink
           \/ RollbackRestage \/ RollbackRestore
  BY <1>0, <1>5, WorkingOnOne DEF RollbackGate, RollbackReread,
       RollbackUnlink, RollbackRestage, RollbackRestore, Located, Ledger,
       Staging, Committing, Forward, UndoingOne, Finished, Undoing, Writes,
       needsWrite, Least, Greatest, AllRenamed, anyWrite
<1>6. CASE CleanupTemp \/ RemoveCreated \/ RollbackDone \/ Close \/ Return
  BY <1>0, <1>6, WorkingOnOne DEF CleanupTemp, RemoveCreated, RollbackDone,
       Close, Return, Located, Ledger, Staging, Committing, Forward,
       UndoingOne, Finished, Undoing, Writes, needsWrite, Least, Greatest,
       AllRenamed, anyWrite
<1> QED  BY <1>1, <1>2, <1>3, <1>4, <1>5, <1>6 DEF Step

\* The loops keep who is staged, identified, committed and to undo in order.
LEMMA LedgerStep ==
  ASSUME TypeOK, Located, Ledger, Step
  PROVE  Ledger'
<1>0. plan' = plan /\ Writes' = Writes  BY PlanIsFixed DEF Next
<1>1. CASE OpenAncestor \/ OpenContainer \/ SkipContainer \/ CreateContainer
  BY <1>0, <1>1, WorkingOnOne DEF OpenAncestor, OpenContainer, SkipContainer,
       CreateContainer, Least, Greatest, Located, Ledger, Forward, Undoing,
       Finished, Staging, Committing, UndoingOne, StillCommitted, AllRenamed
<1>2. CASE PreflightDone
  <2>1. Writes \in SUBSET Comps /\ cur \in Nat \ {0}  BY DEF Writes, TypeOK
  <2>2. {c \in Writes : c < 1} = {}  BY <2>1, Prefix
  <2> QED
    BY <1>0, <1>2, <2>1, <2>2 DEF PreflightDone, Located, Ledger, Forward,
         Undoing, Staging, Committing, UndoingOne, anyWrite
<1>3. CASE ContainersDone
  <2>1. Writes \in SUBSET Comps /\ cur \in Nat \ {0}  BY DEF Writes, TypeOK
  <2>2. {c \in Writes : c < 1} = {}  BY <2>1, Prefix
  <2> QED
    BY <1>0, <1>3, <2>1, <2>2 DEF ContainersDone, Located, Ledger, Forward,
         Undoing, Staging, Committing, UndoingOne, anyWrite
<1>4. CASE Capture \/ BackupRefused \/ BackupWritten \/ BackupExhausted
           \/ StageWrite \/ StageSettle
  BY <1>0, <1>4, WorkingOnOne DEF Capture, BackupRefused, BackupWritten,
       BackupExhausted, StageWrite, StageSettle, Least, Greatest, Located,
       Ledger, Forward, Undoing, Finished, Staging, Committing, UndoingOne,
       StillCommitted, AllRenamed
<1>5. CASE SkipComponent
  <2>1. Writes \in SUBSET Comps /\ cur \in Nat \ {0}  BY DEF Writes, TypeOK
  <2>2. cur \notin Writes
    BY <1>5 DEF Writes, needsWrite, Located, Staging, SkipComponent
  <2>3. {c \in Writes : c < cur} = {c \in Writes : c < cur + 1}
    BY <2>1, <2>2, Prefix
  <2> QED
    BY <1>0, <1>5, <2>1, <2>2, <2>3 DEF SkipComponent, Located, Ledger,
         Forward, Undoing, Staging, Committing, UndoingOne, anyWrite
<1>6. CASE StageIdentify
  <2>1. Writes \in SUBSET Comps /\ cur \in Nat \ {0}  BY DEF Writes, TypeOK
  <2>2. cur \in Writes
    BY <1>6 DEF Writes, needsWrite, Located, Staging, StageIdentify
  <2>3. {c \in Writes : c < cur} \cup {cur} = {c \in Writes : c < cur + 1}
    BY <2>1, <2>2, Prefix
  <2>4. CASE Abort
    BY <1>0, <1>6, <2>2, <2>4 DEF StageIdentify, Located, Ledger, Staging,
         Committing, Forward, UndoingOne
  <2>5. CASE Proceed("stage")
    <3>1. identified' = {c \in Writes : c < cur + 1}
      BY <1>6, <2>3, <2>5 DEF StageIdentify, Ledger, Staging
    <3> QED
      BY <1>0, <1>6, <2>2, <2>5, <3>1 DEF StageIdentify, Ledger, Staging,
           Committing
  <2> QED  BY <1>6, <2>4, <2>5 DEF StageIdentify
<1>7. CASE PreRename \/ RenameApplied \/ RenameNotApplied \/ RenameUnknown
           \/ PostRename \/ CommitDone
  BY <1>0, <1>7, WorkingOnOne DEF PreRename, RenameApplied, RenameNotApplied,
       RenameUnknown, PostRename, CommitDone, Least, Greatest, Located,
       Ledger, Forward, Undoing, Finished, Staging, Committing, UndoingOne,
       StillCommitted, AllRenamed
<1>8. CASE Recheck
  <2>1. Writes \in SUBSET Comps /\ cur \in Nat \ {0}  BY DEF Writes, TypeOK
  <2>2. {c \in Writes : c < cur} = Writes
    BY <1>8, <2>1, Prefix DEF Recheck
  <2> QED
    BY <1>0, <1>8, <2>1, <2>2 DEF Recheck, Located, Ledger, Forward, Undoing,
         Staging, Committing, UndoingOne, anyWrite
<1>9. CASE RollbackGate \/ RollbackReread \/ RollbackUnlink
           \/ RollbackRestage \/ RollbackRestore
  BY <1>0, <1>9, WorkingOnOne DEF RollbackGate, RollbackReread,
       RollbackUnlink, RollbackRestage, RollbackRestore, Least, Greatest,
       Located, Ledger, Forward, Undoing, Finished, Staging, Committing,
       UndoingOne, StillCommitted, AllRenamed
<1>10. CASE CleanupTemp \/ RemoveCreated \/ RollbackDone \/ Close \/ Return
  BY <1>0, <1>10, WorkingOnOne DEF CleanupTemp, RemoveCreated, RollbackDone,
       Close, Return, Least, Greatest, Located, Ledger, Forward, Undoing,
       Finished, Staging, Committing, UndoingOne, StillCommitted, AllRenamed
<1> QED  BY <1>1, <1>2, <1>3, <1>4, <1>5, <1>6, <1>7, <1>8, <1>9, <1>10 DEF
     Step

\* A temporary is complete while it is staged and gone once it is renamed.
LEMMA TemporariesStep ==
  ASSUME TypeOK, Located, Ledger, Temporaries, Step
  PROVE  Temporaries'
<1>0. plan' = plan /\ Writes' = Writes  BY PlanIsFixed DEF Next
<1>1. CASE OpenAncestor \/ PreflightDone \/ OpenContainer \/ SkipContainer
           \/ CreateContainer \/ ContainersDone
  BY <1>0, <1>1, WorkingOnOne DEF OpenAncestor, PreflightDone, OpenContainer,
       SkipContainer, CreateContainer, ContainersDone, TypeOK, Located,
       Ledger, Temporaries, Staging, Committing, Forward, UndoingOne,
       Finished, Undoing, Writes, Least, Greatest, AllRenamed
<1>2. CASE SkipComponent \/ Capture \/ BackupRefused \/ BackupWritten
           \/ BackupExhausted \/ StageWrite \/ StageSettle \/ StageIdentify
  BY <1>0, <1>2, WorkingOnOne DEF SkipComponent, Capture, BackupRefused,
       BackupWritten, BackupExhausted, StageWrite, StageSettle,
       StageIdentify, TypeOK, Located, Ledger, Temporaries, Staging,
       Committing, Forward, UndoingOne, Finished, Undoing, Writes, Least,
       Greatest, AllRenamed
<1>3. CASE Recheck \/ PreRename \/ RenameApplied \/ RenameNotApplied
           \/ RenameUnknown \/ PostRename \/ CommitDone
  BY <1>0, <1>3, WorkingOnOne DEF Recheck, PreRename, RenameApplied,
       RenameNotApplied, RenameUnknown, PostRename, CommitDone, TypeOK,
       Located, Ledger, Temporaries, Staging, Committing, Forward,
       UndoingOne, Finished, Undoing, Writes, Least, Greatest, AllRenamed
<1>4. CASE RollbackGate \/ RollbackReread \/ RollbackUnlink
           \/ RollbackRestage \/ RollbackRestore
  BY <1>0, <1>4, WorkingOnOne DEF RollbackGate, RollbackReread,
       RollbackUnlink, RollbackRestage, RollbackRestore, TypeOK, Located,
       Ledger, Temporaries, Staging, Committing, Forward, UndoingOne,
       Finished, Undoing, Writes, Least, Greatest, AllRenamed
<1>5. CASE CleanupTemp \/ RemoveCreated \/ RollbackDone \/ Close \/ Return
  BY <1>0, <1>5, WorkingOnOne DEF CleanupTemp, RemoveCreated, RollbackDone,
       Close, Return, TypeOK, Located, Ledger, Temporaries, Staging,
       Committing, Forward, UndoingOne, Finished, Undoing, Writes, Least,
       Greatest, AllRenamed
<1> QED  BY <1>1, <1>2, <1>3, <1>4, <1>5 DEF Step

\* What was read before staging stays, and with force it stays in the backup too.
LEMMA CapturesStep ==
  ASSUME TypeOK, Located, Ledger, Captures, Targets, Step
  PROVE  Captures'
<1>0. plan' = plan /\ Writes' = Writes  BY PlanIsFixed DEF Next
<1>1. CASE OpenAncestor \/ PreflightDone \/ OpenContainer \/ SkipContainer
           \/ CreateContainer \/ ContainersDone
  BY <1>0, <1>1, WorkingOnOne DEF OpenAncestor, PreflightDone, OpenContainer,
       SkipContainer, CreateContainer, ContainersDone, TypeOK, Located,
       Ledger, Captures, Staging, Committing, Reads, Before, UndoingOne,
       Finished, Undoing, Writes
<1>2. CASE SkipComponent \/ BackupRefused \/ BackupWritten \/ BackupExhausted
           \/ StageWrite \/ StageSettle \/ StageIdentify
  BY <1>0, <1>2, WorkingOnOne DEF SkipComponent, BackupRefused,
       BackupWritten, BackupExhausted, StageWrite, StageSettle,
       StageIdentify, TypeOK, Located, Ledger, Captures, Staging, Committing,
       Reads, Before, UndoingOne, Finished, Undoing, Writes
<1>3. CASE Capture
  <2>1. cur \in Comps
    BY <1>3, Layout DEF Capture, TypeOK, Comps
  <2> QED
    BY <1>0, <1>3, <2>1 DEF Capture, TypeOK, Located, Ledger, Captures,
         Targets, Staging, Forward, Reads, Before, Writes
<1>4. CASE Recheck \/ PreRename \/ RenameApplied \/ RenameNotApplied
           \/ RenameUnknown \/ PostRename \/ CommitDone
  BY <1>0, <1>4, WorkingOnOne DEF Recheck, PreRename, RenameApplied,
       RenameNotApplied, RenameUnknown, PostRename, CommitDone, TypeOK,
       Located, Ledger, Captures, Staging, Committing, Reads, Before,
       UndoingOne, Finished, Undoing, Writes
<1>5. CASE RollbackGate \/ RollbackReread \/ RollbackUnlink
           \/ RollbackRestage \/ RollbackRestore
  BY <1>0, <1>5, WorkingOnOne DEF RollbackGate, RollbackReread,
       RollbackUnlink, RollbackRestage, RollbackRestore, TypeOK, Located,
       Ledger, Captures, Staging, Committing, Reads, Before, UndoingOne,
       Finished, Undoing, Writes
<1>6. CASE CleanupTemp \/ RemoveCreated \/ RollbackDone \/ Close \/ Return
  BY <1>0, <1>6, WorkingOnOne DEF CleanupTemp, RemoveCreated, RollbackDone,
       Close, Return, TypeOK, Located, Ledger, Captures, Staging, Committing,
       Reads, Before, UndoingOne, Finished, Undoing, Writes
<1> QED  BY <1>1, <1>2, <1>3, <1>4, <1>5, <1>6 DEF Step

\* A target holds what the ledger says of it.
LEMMA TargetsStep ==
  ASSUME TypeOK, Located, Ledger, Captures, Targets, UndoOne, Step
  PROVE  Targets'
<1>0. plan' = plan /\ Writes' = Writes  BY PlanIsFixed DEF Next
<1>1. CASE OpenAncestor \/ PreflightDone \/ OpenContainer \/ SkipContainer
           \/ CreateContainer \/ ContainersDone
  BY <1>0, <1>1, WorkingOnOne DEF OpenAncestor, PreflightDone, OpenContainer,
       SkipContainer, CreateContainer, ContainersDone, TypeOK, Located,
       Ledger, Captures, Targets, UndoOne, Staging, Committing, Reads,
       Before, Recoverable, Forward, UndoingOne, Finished, Undoing, Writes
<1>2. CASE SkipComponent \/ Capture \/ BackupRefused \/ BackupWritten
           \/ BackupExhausted \/ StageWrite \/ StageSettle \/ StageIdentify
  BY <1>0, <1>2, WorkingOnOne DEF SkipComponent, Capture, BackupRefused,
       BackupWritten, BackupExhausted, StageWrite, StageSettle,
       StageIdentify, TypeOK, Located, Ledger, Captures, Targets, UndoOne,
       Staging, Committing, Reads, Before, Recoverable, Forward, UndoingOne,
       Finished, Undoing, Writes
<1>3. CASE Recheck \/ PreRename \/ RenameApplied \/ RenameNotApplied
           \/ RenameUnknown \/ PostRename \/ CommitDone
  BY <1>0, <1>3, WorkingOnOne DEF Recheck, PreRename, RenameApplied,
       RenameNotApplied, RenameUnknown, PostRename, CommitDone, TypeOK,
       Located, Ledger, Captures, Targets, UndoOne, Staging, Committing,
       Reads, Before, Recoverable, Forward, UndoingOne, Finished, Undoing,
       Writes
<1>4. CASE RollbackGate \/ RollbackReread \/ RollbackUnlink
           \/ RollbackRestage \/ RollbackRestore
  BY <1>0, <1>4, WorkingOnOne DEF RollbackGate, RollbackReread,
       RollbackUnlink, RollbackRestage, RollbackRestore, TypeOK, Located,
       Ledger, Captures, Targets, UndoOne, Staging, Committing, Reads,
       Before, Recoverable, Forward, UndoingOne, Finished, Undoing, Writes
<1>5. CASE CleanupTemp \/ RemoveCreated \/ RollbackDone \/ Close \/ Return
  BY <1>0, <1>5, WorkingOnOne DEF CleanupTemp, RemoveCreated, RollbackDone,
       Close, Return, TypeOK, Located, Ledger, Captures, Targets, UndoOne,
       Staging, Committing, Reads, Before, Recoverable, Forward, UndoingOne,
       Finished, Undoing, Writes
<1> QED  BY <1>1, <1>2, <1>3, <1>4, <1>5 DEF Step

\* The rollback holds the component it compared, unless an edit came since.
LEMMA UndoOneStep ==
  ASSUME TypeOK, Located, Ledger, Captures, Targets, UndoOne, Step
  PROVE  UndoOne'
<1>0. plan' = plan /\ Writes' = Writes  BY PlanIsFixed DEF Next
<1>1. CASE OpenAncestor \/ PreflightDone \/ OpenContainer \/ SkipContainer
           \/ CreateContainer \/ ContainersDone
  BY <1>0, <1>1, WorkingOnOne DEF OpenAncestor, PreflightDone, OpenContainer,
       SkipContainer, CreateContainer, ContainersDone, TypeOK, Located,
       Ledger, Captures, Targets, UndoOne, UndoingOne, StillCommitted
<1>2. CASE SkipComponent \/ Capture \/ BackupRefused \/ BackupWritten
           \/ BackupExhausted \/ StageWrite \/ StageSettle \/ StageIdentify
  BY <1>0, <1>2, WorkingOnOne DEF SkipComponent, Capture, BackupRefused,
       BackupWritten, BackupExhausted, StageWrite, StageSettle,
       StageIdentify, TypeOK, Located, Ledger, Captures, Targets, UndoOne,
       UndoingOne, StillCommitted
<1>3. CASE Recheck \/ PreRename \/ RenameApplied \/ RenameNotApplied
           \/ RenameUnknown \/ PostRename \/ CommitDone
  BY <1>0, <1>3, WorkingOnOne DEF Recheck, PreRename, RenameApplied,
       RenameNotApplied, RenameUnknown, PostRename, CommitDone, TypeOK,
       Located, Ledger, Captures, Targets, UndoOne, UndoingOne,
       StillCommitted
<1>4. CASE RollbackGate \/ RollbackReread \/ RollbackUnlink
           \/ RollbackRestage \/ RollbackRestore
  BY <1>0, <1>4, WorkingOnOne DEF RollbackGate, RollbackReread,
       RollbackUnlink, RollbackRestage, RollbackRestore, TypeOK, Located,
       Ledger, Captures, Targets, UndoOne, UndoingOne, StillCommitted
<1>5. CASE CleanupTemp \/ RemoveCreated \/ RollbackDone \/ Close \/ Return
  BY <1>0, <1>5, WorkingOnOne DEF CleanupTemp, RemoveCreated, RollbackDone,
       Close, Return, TypeOK, Located, Ledger, Captures, Targets, UndoOne,
       UndoingOne, StillCommitted
<1> QED  BY <1>1, <1>2, <1>3, <1>4, <1>5 DEF Step

-----------------------------------------------------------------------------
(* The world's steps.                                                        *)

\* An edit breaks nothing the engine relies on.
LEMMA EditStep ==
  ASSUME IInv, NEW e \in Comps, Edit(e)
  PROVE  IInv'
<1>1. plan' = plan /\ Writes' = Writes  BY DEF Edit, Writes, needsWrite
<1>2. TypeOK'  BY DEF IInv, TypeOK, Edit, Contents
<1>3. Located' /\ Ledger'
  BY <1>1 DEF IInv, Located, Ledger, Edit, Undoing
<1>4. Temporaries'  BY <1>1 DEF IInv, Temporaries, Edit
<1>5. Captures'
  BY <1>1 DEF IInv, Captures, Edit, Reads, Before
<1>6. /\ target'[e] \in {"edit", "none"}
      /\ \A c \in Comps \ {e} : target'[c] = target[c]
  BY DEF IInv, TypeOK, Edit
<1>7. Targets'
  BY <1>1, <1>6 DEF IInv, TypeOK, Targets, Edit, Before, Recoverable
<1>8. UndoOne'
  BY <1>1, <1>6, WorkingOnOne DEF IInv, UndoOne, Edit, InUndoWindow, UndoingOne
<1> QED  BY <1>2, <1>3, <1>4, <1>5, <1>7, <1>8 DEF IInv

\* Neither does the loss of a directory's proof.
LEMMA LoseProofStep ==
  ASSUME IInv, NEW d \in Dirs, LoseProof(d)
  PROVE  IInv'
<1>1. TypeOK'  BY DEF IInv, TypeOK, LoseProof
<1> QED
  BY <1>1 DEF IInv, LoseProof, Located, Ledger, Temporaries, Captures, Targets,
       UndoOne, Writes, needsWrite, Undoing, Before, Recoverable, Reads

\* Nor does a crash.
LEMMA CrashStep ==
  ASSUME IInv, Crash
  PROVE  IInv'
<1>1. TypeOK'  BY DEF IInv, TypeOK, Crash, Points
<1>2. Located' /\ Ledger'
  BY DEF IInv, Crash, Located, Ledger, Writes, needsWrite, Staging, Committing,
         Forward, UndoingOne, Undoing, Finished
<1>3. Temporaries' /\ Captures' /\ Targets' /\ UndoOne'
  BY DEF IInv, Crash, Temporaries, Captures, Targets, UndoOne, Staging,
         Committing, Before, Recoverable, Reads
<1> QED  BY <1>1, <1>2, <1>3 DEF IInv

-----------------------------------------------------------------------------
(* The theorems.                                                             *)

\* Every step of the engine and of the world keeps the invariant.
LEMMA Inductive == IInv /\ [Next]_vars => IInv'
<1> SUFFICES ASSUME IInv, [Next]_vars PROVE IInv'  OBVIOUS
<1>1. CASE Step
  BY <1>1, TypeStep, LocatedStep, LedgerStep, TemporariesStep, CapturesStep,
     TargetsStep, UndoOneStep DEF IInv
<1>2. CASE World
  BY <1>2, EditStep, LoseProofStep, CrashStep DEF World
<1>3. CASE UNCHANGED vars
  BY <1>3 DEF IInv, TypeOK, Located, Ledger, Temporaries, Captures, Targets,
       UndoOne, Writes, needsWrite, Undoing, Before, Recoverable, Reads
<1> QED  BY <1>1, <1>2, <1>3 DEF Next

\* IInv holds in every state a transaction reaches.
THEOREM Invariance == Spec => []IInv
<1>1. Init => IInv  BY Initially
<1>2. IInv /\ [Next]_vars => IInv'  BY Inductive
<1> QED  BY <1>1, <1>2, PTL DEF Spec

\* The state of the transaction keeps its types: the engine never works outside
\* the layout it was given, nor tries more backup names than it has.
THEOREM TypeCorrect == Spec => []TypeOK
<1>1. IInv => TypeOK  BY DEF IInv
<1> QED  BY <1>1, Invariance, PTL

\* A result without errors means every write of the plan was renamed and its
\* target holds the new bytes, the editor's own changes aside (line 658).
THEOREM SuccessMeansComplete == Spec => []SuccessIsComplete
<1>1. IInv => SuccessIsComplete
  BY DEF IInv, Located, Ledger, Temporaries, Targets, SuccessIsComplete,
         Finished
<1> QED  BY <1>1, Invariance, PTL

\* An abort without a STOP gives back what every target held (lines 635-647 and
\* the rollback, 719-799).
THEOREM FailureMeansRestored == Spec => []FailureRestores
<1>1. IInv => FailureRestores
  BY DEF IInv, Located, Targets, FailureRestores, Finished
<1> QED  BY <1>1, Invariance, PTL

\* A forced replacement has its prior bytes in the backup at every instant, so
\* also when the process dies (lines 526-537).
THEOREM ReplacementIsBackedUp == Spec => []BackupCoversReplacement
<1>1. IInv => BackupCoversReplacement
  BY DEF IInv, Captures, Targets, Reads, BackupCoversReplacement
<1> QED  BY <1>1, Invariance, PTL

\* No rename starts before every write of the plan is staged (lines 514-605).
THEOREM StagedBeforeRename == Spec => []AllStagedBeforeRename
<1>1. IInv => AllStagedBeforeRename
  BY DEF IInv, Ledger, Temporaries, Committing, AllStagedBeforeRename
<1> QED  BY <1>1, Invariance, PTL

\* New bytes on a target are reported as committed or as a STOP (614-626).
THEOREM EverythingReported == Spec => []NothingUnreported
<1>1. IInv => NothingUnreported  BY DEF IInv, Targets, NothingUnreported
<1> QED  BY <1>1, Invariance, PTL

\* A failure that reports the abort alone has removed every temporary it had
\* registered (lines 800-814).
THEOREM TempsRemoved == Spec => []RegisteredTempsRemoved
<1>1. IInv => RegisteredTempsRemoved
  BY DEF IInv, TypeOK, Located, Ledger, Temporaries, RegisteredTempsRemoved,
         Finished
<1> QED  BY <1>1, Invariance, PTL

\* After a STOP the engine changes nothing any more (lines 636-640, 725-797).
THEOREM StopIsFinal == Spec => StopFreezes
<1> DEFINE Frozen == "stop" \in errors =>
             /\ UNCHANGED <<temp, rtemp, backup>>
             /\ \A c \in Comps : target'[c] # target[c] => c \in touched' \ touched
             /\ \A d \in Dirs : dir'[d] # dir[d] => dir'[d] = "unsafe"
<1>1. IInv /\ [Next]_vars => [Frozen]_vars
  <2> SUFFICES ASSUME IInv, Next, "stop" \in errors PROVE Frozen  OBVIOUS
  <2>1. pc \in {"close", "done", "crashed"}  BY DEF IInv, Located, Finished
  <2>2. CASE Step
    BY <2>1, <2>2 DEF Step, OpenAncestor, PreflightDone, OpenContainer,
         SkipContainer, CreateContainer, ContainersDone, SkipComponent,
         Capture, BackupRefused, BackupWritten, BackupExhausted, StageWrite,
         StageSettle, StageIdentify, Recheck, PreRename, RenameApplied,
         RenameNotApplied, RenameUnknown, PostRename, CommitDone,
         RollbackGate, RollbackReread, RollbackUnlink, RollbackRestage,
         RollbackRestore, CleanupTemp, RemoveCreated, RollbackDone, Close,
         Return
  <2>3. CASE \E e \in Comps : Edit(e)
    BY <2>3 DEF IInv, TypeOK, Edit
  <2>4. CASE \E d \in Dirs : LoseProof(d)
    BY <2>4 DEF IInv, TypeOK, LoseProof
  <2>5. CASE Crash  BY <2>5 DEF Crash
  <2> QED  BY <2>2, <2>3, <2>4, <2>5 DEF Next, World
<1> QED  BY <1>1, Invariance, PTL DEF Spec, StopFreezes

\* A rollback takes an edit away only if it was made after the comparison of
\* the hash (lines 732-742).
THEOREM OnlyLateEditsAreLost == Spec => EarlyEditsSurvive
<1> DEFINE Spared == \A c \in Comps :
             Undoing /\ target[c] = "edit" /\ target'[c] # "edit" => c \in late
<1>1. IInv /\ [Next]_vars => [Spared]_vars
  <2> SUFFICES ASSUME IInv, Next, Undoing, NEW c \in Comps,
                      target[c] = "edit", target'[c] # "edit"
               PROVE  c \in late
    OBVIOUS
  <2>1. CASE Step
    BY <2>1 DEF IInv, TypeOK, UndoOne, Undoing, Step, OpenAncestor,
         PreflightDone, OpenContainer, SkipContainer, CreateContainer,
         ContainersDone, SkipComponent, Capture, BackupRefused,
         BackupWritten, BackupExhausted, StageWrite, StageSettle,
         StageIdentify, Recheck, PreRename, RenameApplied, RenameNotApplied,
         RenameUnknown, PostRename, CommitDone, RollbackGate, RollbackReread,
         RollbackUnlink, RollbackRestage, RollbackRestore, CleanupTemp,
         RemoveCreated, RollbackDone, Close, Return
  <2>2. CASE \E e \in Comps : Edit(e)
    BY <2>2 DEF IInv, TypeOK, Targets, Edit
  <2>3. CASE (\E d \in Dirs : LoseProof(d)) \/ Crash
    BY <2>3 DEF LoseProof, Crash
  <2> QED  BY <2>1, <2>2, <2>3 DEF Next, World
<1> QED  BY <1>1, Invariance, PTL DEF Spec, EarlyEditsSurvive

-----------------------------------------------------------------------------
(* The implementation of the abstract promise, step by step.                 *)

\* The order of the two loops, and what the marks of the editor and of the
\* capture say: what maps a step to one slot of the promise.
Ordered ==
  /\ pc = "rename" => Least(cur, staged)
  /\ pc \in UndoingOne => Greatest(cur, undo)
  /\ late \subseteq touched
  /\ \A c \in Comps : captured[c] # "none" => Reads(c)

\* The loops commit from the first component on and undo from the last one on.
LEMMA OrderedStep == IInv /\ Ordered /\ [Next]_vars => Ordered'
<1> SUFFICES ASSUME IInv, Ordered, [Next]_vars PROVE Ordered'  OBVIOUS
<1>1. CASE OpenAncestor \/ PreflightDone \/ OpenContainer \/ SkipContainer
           \/ CreateContainer \/ ContainersDone \/ SkipComponent
  BY <1>1 DEF OpenAncestor, PreflightDone, OpenContainer, SkipContainer,
       CreateContainer, ContainersDone, SkipComponent, Ordered, UndoingOne,
       Reads
<1>2. CASE Capture
  <2>1. cur \in Comps
    BY <1>2, Layout DEF Capture, IInv, TypeOK, Comps
  <2> QED
    BY <1>2, <2>1 DEF Capture, IInv, TypeOK, Ordered, UndoingOne, Reads
<1>3. CASE BackupRefused \/ BackupWritten \/ BackupExhausted \/ StageWrite
           \/ StageSettle \/ StageIdentify \/ Recheck
  BY <1>3 DEF BackupRefused, BackupWritten, BackupExhausted, StageWrite,
       StageSettle, StageIdentify, Recheck, Ordered, UndoingOne, Reads
<1>4. CASE PreRename \/ RenameApplied \/ RenameNotApplied \/ RenameUnknown
           \/ PostRename \/ CommitDone
  BY <1>4 DEF PreRename, RenameApplied, RenameNotApplied, RenameUnknown,
       PostRename, CommitDone, Ordered, UndoingOne, Reads, Least
<1>5. CASE RollbackGate \/ RollbackReread \/ RollbackUnlink
           \/ RollbackRestage \/ RollbackRestore
  BY <1>5 DEF RollbackGate, RollbackReread, RollbackUnlink, RollbackRestage,
       RollbackRestore, Ordered, UndoingOne, Reads, Greatest
<1>6. CASE CleanupTemp \/ RemoveCreated \/ RollbackDone \/ Close \/ Return
  BY <1>6 DEF CleanupTemp, RemoveCreated, RollbackDone, Close, Return, Ordered,
       UndoingOne, Reads
<1>7. CASE World
  BY <1>7 DEF World, Edit, LoseProof, Crash, Ordered, UndoingOne, Reads, Least,
       Greatest
<1>8. CASE UNCHANGED vars
  BY <1>8 DEF Ordered, Reads, Least, Greatest
<1> QED
  BY <1>1, <1>2, <1>3, <1>4, <1>5, <1>6, <1>7, <1>8 DEF Next, Step

\* A transaction starts in an initial state of the promise.
LEMMA StartsAsPromised == Init => Promise!Init /\ Ordered
<1> SUFFICES ASSUME Init PROVE Promise!Init /\ Ordered  OBVIOUS
<1>1. \A c \in Comps : target[c] # "new"  BY DEF Init, Before
<1>2. slotOf = [c \in Comps |-> "before"]  BY <1>1 DEF slotOf, Init
<1>3. jobOf \in [Comps -> {"skip", "write", "final"}]  BY DEF jobOf
<1>4. phaseOf = "forward"  BY DEF phaseOf, Init
<1>5. Promise!Init  BY <1>2, <1>3, <1>4 DEF Promise!Init
<1>6. Ordered  BY DEF Init, Ordered, UndoingOne
<1> QED  BY <1>5, <1>6

\* What a component's slot shows of its target and of its mark.
LEMMA SlotReads ==
  /\ \A c \in Comps :
       /\ slotOf[c] = "before" <=> c \notin touched /\ target[c] # "new"
       /\ slotOf[c] = "after" <=> c \notin touched /\ target[c] = "new"
       /\ slotOf[c] = "theirs" <=> c \in touched
  /\ \A c \in Comps : /\ jobOf[c] # "skip" <=> c \in Writes
                      /\ jobOf[c] = "write" <=> c \in Writes /\ Recoverable(c)
BY DEF slotOf, jobOf, Writes

\* Where no target and no mark changes, neither does a slot.
LEMMA SlotsStay ==
  ASSUME plan' = plan, target' = target, touched' = touched
  PROVE  jobOf' = jobOf /\ slotOf' = slotOf
BY DEF jobOf, slotOf, needsWrite, Recoverable

\* Where one target changes that the editor has left alone, its slot changes.
LEMMA OneSlotMoves ==
  ASSUME IInv, NEW e \in Comps, NEW x \in {"before", "after"}, plan' = plan,
         touched' = touched, e \notin touched,
         \A c \in Comps \ {e} : target'[c] = target[c],
         target'[e] = "new" <=> x = "after"
  PROVE  jobOf' = jobOf /\ slotOf' = [slotOf EXCEPT ![e] = x]
<1>1. jobOf' = jobOf  BY DEF jobOf, needsWrite, Recoverable
<1>2. \A c \in Comps : slotOf'[c] = IF c = e THEN x ELSE slotOf[c]
  BY DEF slotOf
<1>3. /\ slotOf' = [c \in Comps |-> slotOf'[c]]
      /\ slotOf = [c \in Comps |-> slotOf[c]]
  BY DEF slotOf
<1> QED  BY <1>1, <1>2, <1>3

\* Where one target changes that the editor has marked, no slot does.
LEMMA TheirsStays ==
  ASSUME IInv, NEW e \in touched, plan' = plan, touched' = touched,
         \A c \in Comps \ {e} : target'[c] = target[c]
  PROVE  jobOf' = jobOf /\ slotOf' = slotOf
BY DEF jobOf, slotOf, needsWrite, Recoverable

\* The phase says what the errors and the program point say.
LEMMA PhaseReads ==
  /\ "stop" \in errors \/ pc = "crashed" => phaseOf = "manual"
  /\ "stop" \notin errors /\ pc # "crashed" =>
       /\ "abort" \in errors /\ pc = "done" => phaseOf = "restored"
       /\ "abort" \in errors /\ pc # "done" => phaseOf = "backward"
       /\ "abort" \notin errors /\ pc = "done" => phaseOf = "installed"
       /\ "abort" \notin errors /\ pc # "done" => phaseOf = "forward"
BY DEF phaseOf

\* Steps that change no target: going on, turning back, or giving up.
LEMMA QuietStep ==
  ASSUME IInv, plan' = plan, target' = target, touched' = touched,
         Running, pc' # "done",
         \/ pc' = "crashed" \/ "stop" \in errors'
         \/ "abort" \in errors' /\ "stop" \notin errors'
              /\ (errors = {} \/ ("abort" \in errors /\ "stop" \notin errors))
         \/ /\ "stop" \in errors' <=> "stop" \in errors
            /\ "abort" \in errors' <=> "abort" \in errors
  PROVE  [Promise!Next]_(Promise!vars)
<1>1. jobOf' = jobOf /\ slotOf' = slotOf  BY SlotsStay
<1>2. phaseOf \in {"forward", "backward", "manual"}
  BY DEF phaseOf, Running
<1>3. CASE phaseOf' = phaseOf
  BY <1>1, <1>3 DEF Promise!vars
<1>4. CASE phaseOf' = "manual" /\ phaseOf # "manual"
  BY <1>1, <1>2, <1>4 DEF Promise!Next, Promise!Conclude, Promise!Ended
<1>5. CASE phaseOf' = "backward" /\ phaseOf = "forward"
  BY <1>1, <1>5 DEF Promise!Next, Promise!TurnBack
<1>6. \/ phaseOf' = phaseOf
      \/ phaseOf' = "manual"
      \/ phaseOf' = "backward" /\ phaseOf = "forward"
  BY DEF phaseOf, Running
<1> QED  BY <1>3, <1>4, <1>5, <1>6

\* The steps of the directory loops, of staging and of the proofs are quiet.
LEMMA ForwardIsPromised ==
  ASSUME IInv,
         \/ OpenAncestor \/ PreflightDone \/ OpenContainer \/ SkipContainer
         \/ CreateContainer \/ ContainersDone \/ SkipComponent \/ Capture
         \/ BackupRefused \/ BackupWritten \/ BackupExhausted \/ StageWrite
         \/ StageSettle \/ StageIdentify \/ Recheck \/ PreRename
         \/ RenameNotApplied \/ PostRename \/ CommitDone
  PROVE  [Promise!Next]_(Promise!vars)
<1>1. pc \in Forward /\ errors = {}
  BY DEF IInv, Located, Forward, Staging, Committing, OpenAncestor,
       PreflightDone, OpenContainer, SkipContainer, CreateContainer,
       ContainersDone, SkipComponent, Capture, BackupRefused, BackupWritten,
       BackupExhausted, StageWrite, StageSettle, StageIdentify, Recheck,
       PreRename, RenameNotApplied, PostRename, CommitDone
<1>2. /\ plan' = plan /\ target' = target /\ touched' = touched
      /\ pc' \notin {"done", "crashed"} /\ errors' \in {{}, {"abort"}}
  BY <1>1 DEF OpenAncestor, PreflightDone, OpenContainer, SkipContainer,
       CreateContainer, ContainersDone, SkipComponent, Capture, BackupRefused,
       BackupWritten, BackupExhausted, StageWrite, StageSettle, StageIdentify,
       Recheck, PreRename, RenameNotApplied, PostRename, CommitDone
<1>3. Running
  BY <1>1 DEF Running, Forward, Staging, Committing
<1> QED  BY <1>1, <1>2, <1>3, QuietStep

\* A rename publishes one slot, in order; an unknown one may have.
LEMMA RenameIsPromised ==
  ASSUME IInv, Ordered, RenameApplied \/ RenameUnknown
  PROVE  [Promise!Next]_(Promise!vars)
<1>1. /\ pc = "rename" /\ errors = {} /\ cur \in staged /\ cur \in Writes
      /\ cur \in Comps /\ \A c \in staged : cur <= c
  BY DEF IInv, Located, Ledger, TypeOK, Ordered, Least, Forward, Committing,
       RenameApplied, RenameUnknown
<1>2. /\ plan' = plan /\ touched' = touched
      /\ \A c \in Comps \ {cur} : target'[c] = target[c]
      /\ target' = target \/ target'[cur] = "new"
      /\ pc' \in {"rollback", "confirm", "close"}
      /\ errors' \in {{}, {"abort"}, {"abort", "stop"}}
  BY <1>1 DEF IInv, TypeOK, RenameApplied, RenameUnknown
<1>3. phaseOf = "forward" /\ phaseOf' \in {"forward", "backward", "manual"}
  BY <1>1, <1>2 DEF phaseOf
<1>4. CASE target' = target
  BY <1>1, <1>2, <1>4, QuietStep DEF Running
<1>5. CASE cur \in touched
  <2>1. jobOf' = jobOf /\ slotOf' = slotOf  BY <1>2, <1>5, TheirsStays
  <2> QED
    BY <1>3, <2>1 DEF Promise!vars, Promise!Next, Promise!TurnBack,
         Promise!Conclude, Promise!Ended
<1>6. CASE target'[cur] = "new" /\ cur \notin touched
  <2>1. jobOf' = jobOf /\ slotOf' = [slotOf EXCEPT ![cur] = "after"]
    BY <1>1, <1>2, <1>6, OneSlotMoves
  <2>2. slotOf[cur] = "before"
    BY <1>1, <1>6, SlotReads DEF IInv, Ledger, Targets
  <2>3. \A e \in Promise!ToWrite : e < cur => slotOf[e] # "before"
    <3>1. SUFFICES ASSUME NEW e \in Comps, e \in Writes, e < cur
                   PROVE  slotOf[e] # "before"
      BY SlotReads DEF Promise!ToWrite
    <3>2. e \notin staged  BY <1>1, <3>1 DEF Comps
    <3>3. e \in committed
      BY <1>1, <3>1, <3>2 DEF IInv, Ledger, Committing
    <3> QED  BY <1>1, <3>3, SlotReads DEF IInv, Targets
  <2>4. cur \in Promise!ToWrite  BY <1>1, SlotReads DEF Promise!ToWrite
  <2>5. Promise!Publish(cur)
    BY <1>3, <2>1, <2>2, <2>3, <2>4 DEF Promise!Publish
  <2> QED  BY <1>1, <2>5 DEF Promise!Next
<1> QED  BY <1>2, <1>4, <1>5, <1>6

\* The rollback withdraws one slot, the last one there is to withdraw.
LEMMA UndoIsPromised ==
  ASSUME IInv, Ordered, RollbackUnlink \/ RollbackRestore
  PROVE  [Promise!Next]_(Promise!vars)
<1>1. /\ pc \in {"unlink", "restore"} /\ cur \in undo /\ cur \in committed
      /\ cur \in Writes /\ cur \in Comps
      /\ "abort" \in errors /\ "stop" \notin errors
      /\ \A c \in undo : c <= cur
  BY DEF IInv, Located, Ledger, TypeOK, Ordered, Greatest, UndoingOne, Undoing,
       Finished, Forward, RollbackUnlink, RollbackRestore
<1>2. Recoverable(cur)
  BY <1>1 DEF IInv, UndoOne, Ordered, Recoverable, Reads
<1>3. /\ plan' = plan /\ touched' = touched
      /\ \A c \in Comps \ {cur} : target'[c] = target[c]
      /\ pc' \in {"rollback", "close"} /\ "abort" \in errors'
      /\ target' = target \/ target'[cur] \in {"none", captured[cur]}
  BY <1>1 DEF IInv, TypeOK, RollbackUnlink, RollbackRestore
<1>4. phaseOf = "backward" /\ phaseOf' \in {"backward", "manual"}
  BY <1>1, <1>3 DEF phaseOf
<1>5. CASE target' = target
  <2>1. jobOf' = jobOf /\ slotOf' = slotOf  BY <1>3, <1>5, SlotsStay
  <2> QED
    BY <1>4, <2>1 DEF Promise!vars, Promise!Next, Promise!Conclude,
         Promise!Ended
<1>6. CASE cur \in touched
  <2>1. jobOf' = jobOf /\ slotOf' = slotOf  BY <1>3, <1>6, TheirsStays
  <2> QED
    BY <1>4, <2>1 DEF Promise!vars, Promise!Next, Promise!Conclude,
         Promise!Ended
<1>7. CASE target'[cur] \in {"none", captured[cur]} /\ cur \notin touched
  <2>1. target'[cur] # "new"
    BY <1>1, <1>7 DEF IInv, Captures, Before
  <2>2. jobOf' = jobOf /\ slotOf' = [slotOf EXCEPT ![cur] = "before"]
    BY <1>1, <1>3, <1>7, <2>1, OneSlotMoves
  <2>3. slotOf[cur] = "after"
    BY <1>1, <1>7, SlotReads DEF IInv, UndoOne, Ordered
  <2>4. \A e \in Promise!ToWrite : e > cur /\ jobOf[e] = "write"
                                    => slotOf[e] # "after"
    <3>1. SUFFICES ASSUME NEW e \in Comps, e \in Writes, Recoverable(e),
                          e > cur, e \notin touched
                   PROVE  target[e] # "new"
      BY SlotReads DEF Promise!ToWrite
    <3>2. e \notin undo  BY <1>1, <3>1 DEF Comps
    <3> QED  BY <1>1, <3>1, <3>2 DEF IInv, Targets, Before
  <2>5. jobOf[cur] = "write"  BY <1>1, <1>2, SlotReads
  <2>6. Promise!Withdraw(cur)
    BY <1>4, <2>2, <2>3, <2>4, <2>5 DEF Promise!Withdraw
  <2> QED  BY <1>1, <2>6 DEF Promise!Next
<1> QED  BY <1>3, <1>5, <1>6, <1>7

\* Between two withdrawals, and while it cleans up, the rollback is quiet.
LEMMA RollbackIsPromised ==
  ASSUME IInv,
         \/ RollbackGate \/ RollbackReread \/ RollbackRestage \/ CleanupTemp
         \/ RemoveCreated \/ RollbackDone \/ Close
  PROVE  [Promise!Next]_(Promise!vars)
<1>1. /\ plan' = plan /\ target' = target /\ touched' = touched
      /\ pc' \notin {"done", "crashed"} /\ Running
  BY DEF Running, RollbackGate, RollbackReread, RollbackRestage, CleanupTemp,
       RemoveCreated, RollbackDone, Close
<1>2. \/ "stop" \in errors'
      \/ /\ "stop" \in errors' <=> "stop" \in errors
         /\ "abort" \in errors' <=> "abort" \in errors
  BY DEF RollbackGate, RollbackReread, RollbackRestage, CleanupTemp,
       RemoveCreated, RollbackDone, Close
<1> QED  BY <1>1, <1>2, QuietStep

\* What a transaction returns is what the promise allows.
LEMMA ReturnIsPromised ==
  ASSUME IInv, Return
  PROVE  [Promise!Next]_(Promise!vars)
<1>1. /\ pc = "close" /\ pc' = "done" /\ plan' = plan /\ target' = target
      /\ touched' = touched /\ errors' = errors
  BY DEF Return
<1>2. jobOf' = jobOf /\ slotOf' = slotOf  BY <1>1, SlotsStay
<1>3. CASE "stop" \in errors
  <2>1. phaseOf = "manual" /\ phaseOf' = "manual"  BY <1>1, <1>3 DEF phaseOf
  <2> QED  BY <1>2, <2>1 DEF Promise!vars
<1>4. CASE "stop" \notin errors /\ "abort" \in errors
  <2>1. phaseOf = "backward" /\ phaseOf' = "restored"
    BY <1>1, <1>4 DEF phaseOf
  <2>2. \A s \in Promise!ToWrite : jobOf[s] = "write" => slotOf[s] # "after"
    <3>1. SUFFICES ASSUME NEW s \in Comps, Recoverable(s), s \notin touched
                   PROVE  target[s] # "new"
      BY SlotReads DEF Promise!ToWrite
    <3> QED
      BY <1>1, <1>4, <3>1 DEF IInv, Located, Finished, Targets, Before
  <2> QED
    BY <1>2, <2>1, <2>2 DEF Promise!Next, Promise!Conclude, Promise!Ended
<1>5. CASE "stop" \notin errors /\ "abort" \notin errors
  <2>1. phaseOf = "forward" /\ phaseOf' = "installed"
    BY <1>1, <1>5 DEF phaseOf
  <2>2. \A s \in Promise!ToWrite : slotOf[s] # "before"
    <3>1. SUFFICES ASSUME NEW s \in Comps, s \in Writes, s \notin touched
                   PROVE  target[s] = "new"
      BY SlotReads DEF Promise!ToWrite
    <3> QED
      BY <1>1, <1>5, <3>1 DEF IInv, Located, Finished, Targets
  <2> QED
    BY <1>2, <2>1, <2>2 DEF Promise!Next, Promise!Conclude, Promise!Ended
<1> QED  BY <1>3, <1>4, <1>5

\* An edit makes a slot theirs; lost proof shows nowhere; a crash ends the run.
LEMMA WorldIsPromised ==
  ASSUME IInv, World
  PROVE  [Promise!Next]_(Promise!vars)
<1>1. CASE \E e \in Comps : Edit(e)
  <2>1. PICK e \in Comps : Edit(e)  BY <1>1
  <2>2. /\ plan' = plan /\ pc' = pc /\ errors' = errors
        /\ touched' = touched \cup {e}
        /\ \A c \in Comps \ {e} : target'[c] = target[c]
    BY <2>1 DEF IInv, TypeOK, Edit
  <2>3. jobOf' = jobOf /\ phaseOf' = phaseOf
    BY <2>2 DEF jobOf, phaseOf, needsWrite, Recoverable
  <2>4. \A c \in Comps : slotOf'[c] = IF c = e THEN "theirs" ELSE slotOf[c]
    BY <2>2 DEF slotOf
  <2>5. slotOf' = [slotOf EXCEPT ![e] = "theirs"]
    <3>1. /\ slotOf' = [c \in Comps |-> slotOf'[c]]
          /\ slotOf = [c \in Comps |-> slotOf[c]]
      BY DEF slotOf
    <3> QED  BY <2>4, <3>1
  <2>6. Promise!Theirs(e)  BY <2>3, <2>5 DEF Promise!Theirs
  <2> QED  BY <2>6 DEF Promise!Next
<1>2. CASE \E d \in Dirs : LoseProof(d)
  <2>1. /\ plan' = plan /\ target' = target /\ touched' = touched
        /\ pc' = pc /\ errors' = errors /\ Running
    BY <1>2 DEF LoseProof
  <2> QED  BY <2>1, QuietStep DEF Running
<1>3. CASE Crash
  <2>1. /\ plan' = plan /\ target' = target /\ touched' = touched
        /\ pc' = "crashed" /\ Running
    BY <1>3 DEF Crash
  <2> QED  BY <2>1, QuietStep
<1> QED  BY <1>1, <1>2, <1>3 DEF World

\* Every step of the transaction and of the world is a step of the promise, or
\* none of its business.
LEMMA EveryStepIsPromised ==
  IInv /\ Ordered /\ [Next]_vars => [Promise!Next]_(Promise!vars)
<1> SUFFICES ASSUME IInv, Ordered, [Next]_vars
             PROVE  [Promise!Next]_(Promise!vars)
  OBVIOUS
<1>1. CASE Step
  BY <1>1, ForwardIsPromised, RenameIsPromised, UndoIsPromised,
     RollbackIsPromised, ReturnIsPromised DEF Step
<1>2. CASE World  BY <1>2, WorldIsPromised
<1>3. CASE UNCHANGED vars
  <2>1. jobOf' = jobOf /\ slotOf' = slotOf  BY <1>3, SlotsStay
  <2>2. phaseOf' = phaseOf  BY <1>3 DEF phaseOf
  <2> QED  BY <2>1, <2>2 DEF Promise!vars
<1> QED  BY <1>1, <1>2, <1>3 DEF Next

\* runTransaction keeps the promise of AllOrNothing: it publishes in order, it
\* withdraws from the last slot on, and it ends installed, restored or with a
\* request to recover by hand (lines 589-658, 719-799).  That it ends is left to
\* the model checker.
THEOREM PromiseIsKept ==
  Spec => Promise!Init /\ [][Promise!Next]_(Promise!vars)
<1>1. Init => IInv  BY Initially
<1>2. Init => Promise!Init /\ Ordered  BY StartsAsPromised
<1>3. IInv /\ [Next]_vars => IInv'  BY Inductive
<1>4. IInv /\ Ordered /\ [Next]_vars => Ordered'  BY OrderedStep
<1>5. IInv /\ Ordered /\ [Next]_vars => [Promise!Next]_(Promise!vars)
  BY EveryStepIsPromised
<1> QED  BY <1>1, <1>2, <1>3, <1>4, <1>5, PTL DEF Spec

\* The promise alone keeps the order: a slot is published after all before it
\* and withdrawn before all before it.
LEMMA PromiseIsInOrder ==
  ASSUME Promise!InOrder, [Promise!Next]_(Promise!vars)
  PROVE  Promise!InOrder'
<1>1. Comps \subseteq Int  BY DEF Comps
<1>2. DOMAIN slotOf = Comps  BY DEF slotOf
<1>3. ASSUME NEW s \in Comps, Promise!Publish(s)
      PROVE  Promise!InOrder'
  BY <1>1, <1>2, <1>3 DEF Promise!Publish, Promise!InOrder, Promise!ToWrite
<1>4. ASSUME NEW s \in Comps, Promise!Withdraw(s)
      PROVE  Promise!InOrder'
  BY <1>1, <1>2, <1>4 DEF Promise!Withdraw, Promise!InOrder, Promise!ToWrite
<1>5. ASSUME NEW s \in Comps, Promise!Theirs(s)
      PROVE  Promise!InOrder'
  BY <1>1, <1>2, <1>5 DEF Promise!Theirs, Promise!InOrder, Promise!ToWrite
<1>6. CASE Promise!TurnBack \/ Promise!Conclude
  BY <1>6 DEF Promise!TurnBack, Promise!Conclude, Promise!InOrder,
       Promise!ToWrite
<1>7. CASE UNCHANGED Promise!vars
  BY <1>7 DEF Promise!vars, Promise!InOrder, Promise!ToWrite
<1> QED  BY <1>3, <1>4, <1>5, <1>6, <1>7 DEF Promise!Next

\* Whoever keeps the promise publishes in order: at every instant no settings
\* are in place without their asset (lines 604, 725).  The abstract
\* specification is what the proof is about; the engine only has to keep it.
THEOREM AssetBeforeSettings == Spec => []PublishedInOrder
<1>1. Promise!Init => Promise!InOrder
  BY DEF Promise!Init, Promise!InOrder, Promise!ToWrite
<1>2. Promise!InOrder /\ [Promise!Next]_(Promise!vars) => Promise!InOrder'
  BY PromiseIsInOrder
<1>3. Promise!InOrder => PublishedInOrder
  <2>1. SUFFICES ASSUME Promise!InOrder, NEW c \in Writes \ touched,
                        NEW d \in Writes \ touched, c < d,
                        target[d] = "new", Recoverable(d)
                 PROVE  target[c] = "new"
    BY DEF PublishedInOrder
  <2>2. /\ c \in Promise!ToWrite /\ d \in Promise!ToWrite
        /\ jobOf[d] = "write" /\ slotOf[d] = "after"
    BY <2>1, SlotReads DEF Promise!ToWrite, Writes
  <2>3. slotOf[c] # "before"  BY <2>1, <2>2 DEF Promise!InOrder
  <2> QED  BY <2>1, <2>3, SlotReads DEF Writes
<1> QED  BY <1>1, <1>2, <1>3, PromiseIsKept, PTL

-----------------------------------------------------------------------------
(* Every run is finite: what is left to do shrinks in a well-founded order.  *)

\* The sets the loops run over are finite, and without a member smaller.
LEMMA Sizes ==
  ASSUME TypeOK
  PROVE  /\ \A S \in {staged, undo, created, held} :
              /\ Cardinality(S) \in Nat
              /\ \A x \in S : Cardinality(S \ {x}) = Cardinality(S) - 1
<1>1. IsFiniteSet(Comps) /\ IsFiniteSet(Dirs)
  BY Layout, FS_Interval DEF Comps, Dirs
<1>2. \A S \in {staged, undo, created, held} : IsFiniteSet(S)
  BY <1>1, FS_Subset DEF TypeOK
<1> QED  BY <1>2, FS_CardinalityType, FS_RemoveElement

\* The measure is made of natural numbers.
LEMMA MeasureIsNatural ==
  TypeOK => Chapter \in Nat /\ Left \in Nat /\ Due \in Nat
<1> HAVE TypeOK
<1>1. Chapter \in 0..6  BY DEF Chapter
<1>2. \A n \in Nat : Ahead(n) \in Nat  BY DEF TypeOK, Ahead
<1>3. Left \in Nat  BY <1>1, <1>2, Sizes, Layout DEF Left
<1>4. Due \in Nat  BY Layout DEF TypeOK, Due
<1> QED  BY <1>1, <1>3, <1>4

\* The chapter of every point.
LEMMA Chapters ==
  /\ pc = "preflight" => Chapter = 6
  /\ pc = "containers" => Chapter = 5
  /\ pc \in Staging => Chapter = 4
  /\ pc \in Committing => Chapter = 3
  /\ Undoing => Chapter = 2
  /\ pc = "close" => Chapter = 1
  /\ pc \in {"done", "crashed"} => Chapter = 0
BY DEF Chapter, Staging, Committing, Undoing

\* Turning back or giving up skips what was ahead.
LEMMA TurningBackSpends ==
  ASSUME pc \in Forward, pc' \in {"rollback", "close"}
  PROVE  Spends
<1>1. Chapter \in {3, 4, 5, 6}
  BY Chapters DEF Forward, Staging, Committing
<1>2. Chapter' \in {1, 2}  BY DEF Chapter, Undoing
<1> QED  BY <1>1, <1>2 DEF Spends

\* The next entry of a loop over positions is one fewer.
LEMMA AheadShrinks ==
  ASSUME TypeOK, NEW n \in Nat, cur <= n, cur' = cur + 1
  PROVE  Ahead(n)' < Ahead(n)
BY DEF TypeOK, Ahead

LEMMA DirectoriesSpend ==
  ASSUME IInv, OpenAncestor \/ PreflightDone \/ OpenContainer
                 \/ SkipContainer \/ CreateContainer \/ ContainersDone
  PROVE  Spends
<1>1. TypeOK  BY DEF IInv
<1>2. \/ pc \in {"preflight", "containers"} /\ pc' = "rollback"
      \/ /\ pc = "preflight" /\ pc' = "preflight"
         /\ cur <= NumAncestors /\ cur' = cur + 1
      \/ pc = "preflight" /\ pc' \in {"containers", "stage"}
      \/ /\ pc = "containers" /\ pc' = "containers"
         /\ cur <= NumDirs /\ cur' = cur + 1
      \/ pc = "containers" /\ pc' = "stage"
  BY DEF OpenAncestor, PreflightDone, OpenContainer, SkipContainer,
       CreateContainer, ContainersDone
<1>3. CASE pc \in {"preflight", "containers"} /\ pc' = "rollback"
  BY <1>3, TurningBackSpends DEF Forward
<1>4. CASE pc = "preflight" /\ pc' = "preflight"
  <2>1. Chapter = 6 /\ Chapter' = 6  BY <1>4 DEF Chapter, Undoing
  <2>2. Left = Ahead(NumAncestors) /\ Left' = Ahead(NumAncestors)'
    BY <2>1 DEF Left
  <2> QED  BY <1>1, <1>2, <1>4, <2>1, <2>2, AheadShrinks, Layout DEF Spends
<1>5. CASE pc = "containers" /\ pc' = "containers"
  <2>1. Chapter = 5 /\ Chapter' = 5  BY <1>5 DEF Chapter, Undoing
  <2>2. Left = Ahead(NumDirs) /\ Left' = Ahead(NumDirs)'  BY <2>1 DEF Left
  <2> QED  BY <1>1, <1>2, <1>5, <2>1, <2>2, AheadShrinks, Layout DEF Spends
<1>6. CASE pc = "preflight" /\ pc' \in {"containers", "stage"}
  BY <1>6 DEF Chapter, Undoing, Spends
<1>7. CASE pc = "containers" /\ pc' = "stage"
  BY <1>7 DEF Chapter, Undoing, Spends
<1> QED  BY <1>2, <1>3, <1>4, <1>5, <1>6, <1>7

LEMMA StagingSpends ==
  ASSUME IInv, SkipComponent \/ Capture \/ BackupRefused \/ BackupWritten
                 \/ BackupExhausted \/ StageWrite \/ StageSettle
                 \/ StageIdentify \/ Recheck
  PROVE  Spends
<1>1. TypeOK /\ pc \in Staging
  BY DEF IInv, SkipComponent, Capture, BackupRefused, BackupWritten,
       BackupExhausted, StageWrite, StageSettle, StageIdentify, Recheck, Staging
<1>2. pc = "identify" => cur \in Comps
  BY WorkingOnOne DEF IInv, Staging
<1>3. \/ pc' = "rollback"
      \/ pc = "stage" /\ pc' = "commit"
      \/ /\ pc \in {"stage", "identify"} /\ pc' = "stage"
         /\ cur <= NumComps /\ cur' = cur + 1
      \/ /\ cur' = cur /\ tries' \in 0..Candidates
         /\ \/ pc = "stage" /\ pc' \in {"backup", "write"}
            \/ pc = "backup" /\ pc' = "backup" /\ tries' = tries + 1
            \/ pc = "backup" /\ pc' = "write"
            \/ pc = "write" /\ pc' = "settle"
            \/ pc = "settle" /\ pc' = "identify"
  BY <1>1, <1>2, Layout
     DEF TypeOK, Comps, SkipComponent, Capture, BackupRefused, BackupWritten,
         BackupExhausted, StageWrite, StageSettle, StageIdentify, Recheck,
         CandidatesLeft
<1>4. CASE pc' = "rollback"
  BY <1>1, <1>4, TurningBackSpends DEF Forward
<1>5. CASE pc = "stage" /\ pc' = "commit"
  BY <1>5 DEF Chapter, Undoing, Spends
<1>6. CASE /\ pc \in {"stage", "identify"} /\ pc' = "stage"
           /\ cur <= NumComps /\ cur' = cur + 1
  <2>1. Chapter = 4 /\ Chapter' = 4  BY <1>6 DEF Chapter, Undoing
  <2>2. Left = Ahead(NumComps) /\ Left' = Ahead(NumComps)'  BY <2>1 DEF Left
  <2> QED  BY <1>1, <1>6, <2>1, <2>2, AheadShrinks, Layout DEF Spends
<1>7. CASE cur' = cur /\ pc' \in Staging /\ Due' < Due
  <2>1. Chapter = 4 /\ Chapter' = 4
    BY <1>1, <1>7 DEF Chapter, Undoing, Staging
  <2>2. Left' = Left  BY <1>7, <2>1 DEF Left, Ahead
  <2> QED  BY <1>7, <2>1, <2>2 DEF Spends
<1>8. ASSUME cur' = cur, tries' \in 0..Candidates,
             \/ pc = "stage" /\ pc' \in {"backup", "write"}
             \/ pc = "backup" /\ pc' = "backup" /\ tries' = tries + 1
             \/ pc = "backup" /\ pc' = "write"
             \/ pc = "write" /\ pc' = "settle"
             \/ pc = "settle" /\ pc' = "identify"
      PROVE  pc' \in Staging /\ Due' < Due
  BY <1>1, <1>8, Layout DEF TypeOK, Due, Staging
<1> QED  BY <1>3, <1>4, <1>5, <1>6, <1>7, <1>8

LEMMA CommittingSpends ==
  ASSUME IInv, PreRename \/ RenameApplied \/ RenameNotApplied
                 \/ RenameUnknown \/ PostRename \/ CommitDone
  PROVE  Spends
<1>1. TypeOK /\ pc \in Committing /\ (pc = "rename" => cur \in staged)
  BY DEF IInv, Located, PreRename, RenameApplied, RenameNotApplied,
       RenameUnknown, PostRename, CommitDone, Committing
<1>2. \/ pc' \in {"rollback", "close"}
      \/ /\ pc = "rename" /\ pc' = "confirm" /\ staged' = staged \ {cur}
      \/ /\ staged' = staged
         /\ \/ pc = "commit" /\ pc' = "rename"
            \/ pc = "confirm" /\ pc' = "commit"
  BY DEF PreRename, RenameApplied, RenameNotApplied, RenameUnknown, PostRename,
       CommitDone
<1>3. CASE pc' \in {"rollback", "close"}
  BY <1>1, <1>3, TurningBackSpends DEF Forward
<1>4. CASE pc' \in Committing
  <2>1. Chapter = 3 /\ Chapter' = 3
    BY <1>1, <1>4 DEF Chapter, Undoing, Committing
  <2>2. Left = Cardinality(staged) /\ Left' = Cardinality(staged')
    BY <2>1 DEF Left
  <2>3. Cardinality(staged) \in Nat
          /\ \A x \in staged : Cardinality(staged \ {x}) = Cardinality(staged) - 1
    BY <1>1, Sizes
  <2>4. CASE pc = "rename" /\ staged' = staged \ {cur}
    BY <1>1, <2>1, <2>2, <2>3, <2>4 DEF Spends
  <2>5. CASE /\ staged' = staged
             /\ \/ pc = "commit" /\ pc' = "rename"
                \/ pc = "confirm" /\ pc' = "commit"
    <3>1. Due' < Due  BY <2>5 DEF Due
    <3> QED  BY <2>1, <2>2, <2>5, <3>1 DEF Spends
  <2> QED  BY <1>2, <1>4, <2>4, <2>5 DEF Committing
<1> QED  BY <1>2, <1>3, <1>4 DEF Committing

LEMMA UndoingSpends ==
  ASSUME IInv, RollbackGate \/ RollbackReread \/ RollbackUnlink
                 \/ RollbackRestage \/ RollbackRestore \/ CleanupTemp
                 \/ RemoveCreated \/ RollbackDone
  PROVE  Spends
<1>1. TypeOK /\ Undoing /\ (pc \in UndoingOne => cur \in undo)
  BY DEF IInv, Located, RollbackGate, RollbackReread, RollbackUnlink,
       RollbackRestage, RollbackRestore, CleanupTemp, RemoveCreated,
       RollbackDone, Undoing
<1>2. \/ pc' = "close"
      \/ /\ UNCHANGED <<undo, staged, created>>
         /\ \/ pc = "rollback" /\ pc' = "reread"
            \/ pc = "reread" /\ pc' \in {"unlink", "restage"}
            \/ pc = "restage" /\ pc' = "restore"
      \/ /\ pc \in UndoingOne /\ pc' = "rollback" /\ undo' = undo \ {cur}
         /\ UNCHANGED <<staged, created>>
      \/ /\ pc = "rollback" /\ pc' = "rollback"
         /\ \/ /\ \E c \in staged : staged' = staged \ {c}
               /\ UNCHANGED <<undo, created>>
            \/ /\ \E d \in created : created' = created \ {d}
               /\ UNCHANGED <<undo, staged>>
  <2>1. CASE RollbackGate \/ RollbackReread \/ RollbackDone
    BY <2>1 DEF RollbackGate, RollbackReread, RollbackDone, UndoingOne
  <2>2. CASE RollbackUnlink \/ RollbackRestage \/ RollbackRestore
    BY <2>2 DEF RollbackUnlink, RollbackRestage, RollbackRestore, UndoingOne
  <2>3. CASE CleanupTemp \/ RemoveCreated
    BY <2>3 DEF CleanupTemp, RemoveCreated
  <2> QED  BY <2>1, <2>2, <2>3
<1>3. Chapter = 2  BY <1>1, Chapters
<1>4. CASE pc' = "close"
  BY <1>3, <1>4 DEF Chapter, Undoing, Spends
<1>5. CASE pc' \in {"rollback"} \cup UndoingOne
  <2>1. Chapter' = 2  BY <1>5 DEF Chapter, Undoing, UndoingOne
  <2>2. /\ Left = Cardinality(undo) + Cardinality(staged) + Cardinality(created)
        /\ Left' = Cardinality(undo') + Cardinality(staged')
                     + Cardinality(created')
    BY <1>3, <2>1 DEF Left
  <2>3. \A S \in {staged, undo, created} :
          /\ Cardinality(S) \in Nat
          /\ \A x \in S : Cardinality(S \ {x}) = Cardinality(S) - 1
    BY <1>1, Sizes
  <2>4. CASE /\ UNCHANGED <<undo, staged, created>>
             /\ \/ pc = "rollback" /\ pc' = "reread"
                \/ pc = "reread" /\ pc' \in {"unlink", "restage"}
                \/ pc = "restage" /\ pc' = "restore"
    <3>1. Due' < Due  BY <2>4 DEF Due
    <3> QED  BY <1>3, <2>1, <2>2, <2>4, <3>1 DEF Spends
  <2>5. CASE /\ pc \in UndoingOne /\ undo' = undo \ {cur}
             /\ UNCHANGED <<staged, created>>
    <3>1. Left' < Left  BY <1>1, <2>2, <2>3, <2>5
    <3> QED  BY <1>3, <2>1, <3>1 DEF Spends
  <2>6. CASE /\ \E c \in staged : staged' = staged \ {c}
             /\ UNCHANGED <<undo, created>>
    <3>1. Left' < Left  BY <2>2, <2>3, <2>6
    <3> QED  BY <1>3, <2>1, <3>1 DEF Spends
  <2>7. CASE /\ \E d \in created : created' = created \ {d}
             /\ UNCHANGED <<undo, staged>>
    <3>1. Left' < Left  BY <2>2, <2>3, <2>7
    <3> QED  BY <1>3, <2>1, <3>1 DEF Spends
  <2> QED  BY <1>2, <1>5, <2>4, <2>5, <2>6, <2>7 DEF UndoingOne
<1> QED  BY <1>2, <1>4, <1>5 DEF UndoingOne

LEMMA ClosingSpends ==
  ASSUME IInv, Close \/ Return
  PROVE  Spends
<1>1. CASE Close
  <2>1. TypeOK  BY DEF IInv
  <2>2. Chapter = 1 /\ Chapter' = 1
    BY <1>1, Chapters DEF Close, Chapter, Undoing
  <2>3. Left = Cardinality(held) /\ Left' = Cardinality(held')
    BY <2>2 DEF Left
  <2>4. PICK d \in held : held' = held \ {d}  BY <1>1 DEF Close
  <2>5. Left' < Left  BY <2>1, <2>3, <2>4, Sizes
  <2> QED  BY <2>2, <2>5 DEF Spends
<1>2. CASE Return
  BY <1>2 DEF Return, Chapter, Undoing, Spends
<1> QED  BY <1>1, <1>2

LEMMA StepSpends ==
  ASSUME IInv, Step
  PROVE  Spends
BY DirectoriesSpend, StagingSpends, CommittingSpends, UndoingSpends,
   ClosingSpends DEF Step

\* The world never gives a run more to do; a crash ends it.
LEMMA WorldAddsNothing ==
  ASSUME IInv, World
  PROVE  Spends \/ UNCHANGED <<Chapter, Left, Due>>
<1>1. CASE (\E c \in Comps : Edit(c)) \/ (\E d \in Dirs : LoseProof(d))
  <2>1. UNCHANGED <<pc, cur, tries, held, created, staged, undo>>
    BY <1>1 DEF Edit, LoseProof
  <2>2. Chapter' = Chapter /\ Due' = Due
    BY <2>1 DEF Chapter, Undoing, Due
  <2>3. Left' = Left  BY <2>1, <2>2 DEF Left, Ahead
  <2> QED  BY <2>2, <2>3
<1>2. CASE Crash
  <2>1. Chapter' = 0  BY <1>2 DEF Crash, Chapter, Undoing
  <2>2. Chapter \in 1..6
    BY <1>2 DEF Crash, Running, IInv, TypeOK, Points, Chapter, Undoing
  <2> QED  BY <2>1, <2>2 DEF Spends
<1> QED  BY <1>1, <1>2 DEF World

\* Every call of the engine leaves less to do, for every layout, plan and
\* number of backup names (lines 604-656, 682-799): with RunsAreFinite, what
\* Terminates needs beside fairness.
THEOREM EveryCallSpends == Spec => EveryStepSpends
<1>1. IInv /\ [Next]_vars =>
        [ /\ Step => Spends
          /\ World => Spends \/ UNCHANGED <<Chapter, Left, Due>> ]_vars
  BY StepSpends, WorldAddsNothing
<1>2. Spec => []IInv  BY Invariance
<1> QED  BY <1>1, <1>2, PTL DEF Spec, EveryStepSpends

\* The order of the measure, innermost part last.
LessNat == OpToRel(<, Nat)
Within == LexPairOrdering(LessNat, LessNat, Nat, Nat)
Spent == LexPairOrdering(LessNat, Within, Nat, Nat \X Nat)
Measure == <<Chapter, <<Left, Due>>>>

\* A step that spends goes down in that order, and nothing goes down in it for
\* ever: no run makes infinitely many calls of the engine.
THEOREM RunsAreFinite ==
  /\ IsWellFoundedOn(Spent, Nat \X (Nat \X Nat))
  /\ TypeOK /\ TypeOK' /\ Spends => <<Measure', Measure>> \in Spent
<1>1. IsWellFoundedOn(LessNat, Nat)
  BY NatLessThanWellFounded DEF LessNat, OpToRel
<1>2. IsWellFoundedOn(Within, Nat \X Nat)
  BY <1>1, WFLexPairOrdering DEF Within
<1>3. IsWellFoundedOn(Spent, Nat \X (Nat \X Nat))
  BY <1>1, <1>2, WFLexPairOrdering DEF Spent
<1>4. TypeOK' => (Chapter \in Nat /\ Left \in Nat /\ Due \in Nat)'
  BY MeasureIsNatural, PTL
<1>5. ASSUME TypeOK, TypeOK', Spends
      PROVE  <<Measure', Measure>> \in Spent
  <2>1. /\ Chapter \in Nat /\ Left \in Nat /\ Due \in Nat
        /\ Chapter' \in Nat /\ Left' \in Nat /\ Due' \in Nat
    BY <1>4, <1>5, MeasureIsNatural
  <2>2. \A x, y \in Nat : <<x, y>> \in LessNat <=> x < y
    BY DEF LessNat, OpToRel
  <2> QED
    BY <1>5, <2>1, <2>2 DEF Spends, Spent, Within, LexPairOrdering, Measure
<1> QED  BY <1>3, <1>5
=============================================================================
