----------------------- MODULE PluginReplacementProofs -----------------------
(***************************************************************************)
(* Proofs about PluginReplacement: no version is lost, no two successes    *)
(* replace the same one, and every outcome is true, for any number of      *)
(* installers and removals.                                                *)
(***************************************************************************)
EXTENDS PluginReplacement, TLAPS

Moving == {"source", "target", "rename", "readSource", "readTarget"}

\* What an installer, its two places and its outcome are like.
Steps(i) ==
  /\ pc[i] = "idle" => prior[i] = "none"
  /\ pc[i] \in {"idle", "stage", "recheck"} => kind[i] = "none"
  /\ pc[i] \in {"idle", "stage"} =>
       disk[Stage(i)] = "none" /\ disk[Backup(i)] = "none"
  /\ pc[i] \in Moving => kind[i] # "none"
  /\ kind[i] \in {"none", "backup"} => i \notin published
  /\ kind[i] = "backup" => prior[i] # "none"
  /\ pc[i] \in {"clean", "remove"} => i \in published /\ kind[i] = "promote"
  /\ pc[i] = "remove" => disk[Backup(i)] \in {prior[i], "none"}
Outcomes(i) ==
  /\ result[i] # "none" => pc[i] = "returned"
  /\ result[i] = "success" => i \in published /\ kind[i] = "promote"
  /\ result[i] = "failure" /\ cleanup[i] = "complete" => prior[i] = "none"
  /\ pc[i] = "returned" /\ cleanup[i] = "complete" =>
       disk[Stage(i)] = "none" /\ disk[Backup(i)] = "none"
\* A stage holds the installer's own version until that is published; a
\* backup what was published before, the replaced version when one is.
Workspace(i) ==
  /\ disk[Stage(i)] \in {i, "none"}
  /\ i \in published => disk[Stage(i)] = "none"
  /\ disk[Backup(i)] # i
  /\ disk[Backup(i)] \in published \cup {"none"}
  /\ prior[i] \in published \cup {"none"}
  /\ prior[i] = "none" => disk[Backup(i)] = "none"
  /\ kind[i] = "promote" /\ prior[i] # "none" =>
       disk[Backup(i)] = prior[i] \/ prior[i] \in erased
Local(i) == Steps(i) /\ Outcomes(i) /\ Workspace(i)

\* Where what was published is, and who took what was erased.
Accounted ==
  /\ disk[Dest] \in published \cup {"none"}
  /\ \A x \in published : \/ \E p \in Places : disk[p] = x
                          \/ x \in removed \cup erased
  /\ \A x \in erased : /\ x \in published
                       /\ \A p \in Places : disk[p] # x
                       /\ \E i \in Installers : prior[i] = x /\ i \in published
\* Only one installer takes the backup of a version and goes on.
Alone == \A i, j \in Installers :
           /\ i # j /\ kind[i] = "promote" /\ kind[j] = "promote"
           /\ prior[i] = prior[j]
           => prior[i] = "none"

IInv == TypeOK /\ (\A i \in Installers : Local(i)) /\ Accounted /\ Alone

-----------------------------------------------------------------------------

\* The destination, the stages and the backups are different places.
LEMMA PlacesApart ==
  /\ Dest \in Places
  /\ \A i \in Installers : /\ Stage(i) \in Places /\ Backup(i) \in Places
                           /\ Dest # Stage(i) /\ Dest # Backup(i)
  /\ \A i, j \in Installers : /\ Stage(i) # Backup(j)
                              /\ Stage(i) = Stage(j) => i = j
                              /\ Backup(i) = Backup(j) => i = j
  /\ \A p \in Places : \/ p = Dest
                       \/ \E i \in Installers : p = Stage(i) \/ p = Backup(i)
  BY DEF Places, Dest, Stage, Backup

\* An installer is no other thing, no removal, and a plugin.
LEMMA NamesApart ==
  /\ \A i \in Installers : i # "none" /\ i # "old" /\ i # "foreign"
  /\ \A i \in Installers : i \notin Removers
  /\ Installers \subseteq Things /\ Installers \subseteq Plugins
  BY PluginAssumption DEF PluginAssumption, Things, Plugins

\* Before anybody starts, whatever is installed is all there is.
LEMMA Starts == Init => IInv
  <1> SUFFICES ASSUME Init PROVE IInv
    OBVIOUS
  <1>1. PICK x \in {"old", "foreign", "none"} :
          /\ disk = [p \in Places |-> IF p = Dest THEN x ELSE "none"]
          /\ published = {x} \ {"none"}
    BY DEF Init
  <1>2. disk[Dest] = x /\ \A p \in Places : p # Dest => disk[p] = "none"
    BY <1>1, PlacesApart
  <1>3. TypeOK
    BY <1>1, <1>2 DEF Init, TypeOK, Things, Plugins
  <1>4. ASSUME NEW i \in Installers PROVE Local(i)
    <2>1. disk[Stage(i)] = "none" /\ disk[Backup(i)] = "none"
      BY <1>2, PlacesApart
    <2>2. i \notin published /\ i # "none"
      BY <1>1, NamesApart
    <2> QED BY <2>1, <2>2 DEF Init, Local, Steps, Outcomes, Workspace, Moving
  <1>5. Accounted
    BY <1>1, <1>2, PlacesApart DEF Init, Accounted
  <1>6. Alone
    BY DEF Init, Alone
  <1> QED BY <1>3, <1>4, <1>5, <1>6 DEF IInv

\* An installer that does nothing stays as it is when others publish or erase.
LEMMA OthersStay ==
  ASSUME NEW j \in Installers, Local(j),
         pc'[j] = pc[j], prior'[j] = prior[j], kind'[j] = kind[j],
         result'[j] = result[j], cleanup'[j] = cleanup[j],
         disk'[Stage(j)] = disk[Stage(j)], disk'[Backup(j)] = disk[Backup(j)],
         published \subseteq published', j \in published' => j \in published,
         erased \subseteq erased'
  PROVE  Local(j)'
  <1>1. Steps(j)' /\ Outcomes(j)'
    BY DEF Local, Steps, Outcomes, Stage, Backup
  <1>2. Workspace(j)'
    BY DEF Local, Workspace, Stage, Backup
  <1> QED BY <1>1, <1>2 DEF Local

\* Steps that touch nothing on the disk.
LEMMA QuietKeeps ==
  ASSUME IInv, NEW i \in Installers,
         UNCHANGED <<disk, published, erased, removed>>,
         \A j \in Installers \ {i} :
           /\ pc'[j] = pc[j] /\ prior'[j] = prior[j] /\ kind'[j] = kind[j]
           /\ result'[j] = result[j] /\ cleanup'[j] = cleanup[j],
         i \in published => prior'[i] = prior[i]
  PROVE  /\ \A j \in Installers \ {i} : Local(j)'
         /\ Accounted'
  <1>1. \A j \in Installers \ {i} : Local(j)'
    BY OthersStay DEF IInv
  <1>2. Accounted'
    BY DEF IInv, Accounted
  <1> QED BY <1>1, <1>2

\* What a step of a call does to its own fields and leaves in others'.
LEMMA OwnFields ==
  ASSUME TypeOK, NEW i \in Installers
  PROVE  /\ \A v : Goto(i, v) => /\ pc'[i] = v
                                 /\ \A j \in Installers \ {i} : pc'[j] = pc[j]
         /\ \A v : kind' = [kind EXCEPT ![i] = v] =>
              /\ kind'[i] = v
              /\ \A j \in Installers \ {i} : kind'[j] = kind[j]
         /\ \A v, w : Return(i, v, w) =>
              /\ pc'[i] = "returned" /\ result'[i] = v /\ cleanup'[i] = w
              /\ \A j \in Installers \ {i} :
                   /\ pc'[j] = pc[j] /\ result'[j] = result[j]
                   /\ cleanup'[j] = cleanup[j]
         /\ \A v : prior' = [prior EXCEPT ![i] = v] =>
              /\ prior'[i] = v
              /\ \A j \in Installers \ {i} : prior'[j] = prior[j]
  BY DEF TypeOK, Goto, Return

\* Reading what is installed.
LEMMA ReadPriorKeeps ==
  ASSUME IInv, NEW i \in Installers, ReadPrior(i)
  PROVE  IInv'
  <1>1. /\ pc[i] = "idle" /\ kind[i] = "none" /\ i \notin published
        /\ prior[i] = "none"
        /\ disk[Stage(i)] = "none" /\ disk[Backup(i)] = "none"
        /\ UNCHANGED <<disk, kind, source, rejected, published, erased,
                       removed>>
    BY DEF IInv, Local, Steps, ReadPrior
  <1>2. Local(i) /\ TypeOK /\ Accounted
    BY DEF IInv
  <1>3. /\ disk[Dest] \in Things \cup {"none"}
        /\ disk[Dest] \in published \cup {"none"}
    BY <1>2, PlacesApart DEF TypeOK, Accounted
  <1>4. CASE /\ Managed
             /\ prior' = [prior EXCEPT ![i] = disk[Dest]]
             /\ Goto(i, "stage") /\ UNCHANGED report
    <2>1. /\ pc'[i] = "stage" /\ prior'[i] = disk[Dest]
          /\ result' = result /\ cleanup' = cleanup
          /\ \A j \in Installers \ {i} : pc'[j] = pc[j] /\ prior'[j] = prior[j]
      <3>1. pc'[i] = "stage" /\ \A j \in Installers \ {i} : pc'[j] = pc[j]
        BY <1>2, <1>4, OwnFields
      <3>2. /\ prior'[i] = disk[Dest]
            /\ \A j \in Installers \ {i} : prior'[j] = prior[j]
        BY <1>2, <1>4 DEF TypeOK
      <3> QED BY <1>4, <3>1, <3>2 DEF report
    <2>2. TypeOK'
      BY <1>1, <1>2, <1>3, <1>4 DEF TypeOK, Goto, report, Managed, Plugins
    <2>3. Local(i)'
      BY <1>1, <1>2, <1>3, <2>1
         DEF Local, Steps, Outcomes, Workspace, Moving, Stage, Backup
    <2>4. (\A j \in Installers \ {i} : Local(j)') /\ Accounted'
      BY <1>1, <2>1, QuietKeeps
    <2>5. Alone'
      BY <1>1, <2>1 DEF IInv, Alone
    <2> QED BY <2>2, <2>3, <2>4, <2>5 DEF IInv
  <1>5. CASE Return(i, "failure", "complete") /\ UNCHANGED prior
    <2>1. /\ pc'[i] = "returned" /\ result'[i] = "failure"
          /\ \A j \in Installers \ {i} : /\ pc'[j] = pc[j]
                                         /\ result'[j] = result[j]
                                         /\ cleanup'[j] = cleanup[j]
      BY <1>2, <1>5, OwnFields
    <2>2. TypeOK'
      BY <1>1, <1>2, <1>5 DEF TypeOK, Goto, Return
    <2>3. Local(i)'
      BY <1>1, <1>2, <1>5, <2>1
         DEF Local, Steps, Outcomes, Workspace, Moving, Stage, Backup
    <2>4. (\A j \in Installers \ {i} : Local(j)') /\ Accounted'
      BY <1>1, <1>5, <2>1, QuietKeeps
    <2>5. Alone'
      BY <1>1, <1>5 DEF IInv, Alone
    <2> QED BY <2>2, <2>3, <2>4, <2>5 DEF IInv
  <1> QED BY <1>4, <1>5 DEF ReadPrior

\* Staging the new version, which nobody has published yet.
LEMMA StageNewKeeps ==
  ASSUME IInv, NEW i \in Installers, StageNew(i)
  PROVE  IInv'
  <1>1. /\ pc[i] = "stage" /\ kind[i] = "none" /\ i \notin published
        /\ disk[Stage(i)] = "none" /\ disk[Backup(i)] = "none"
        /\ disk' = [disk EXCEPT ![Stage(i)] = i]
        /\ UNCHANGED <<prior, kind, source, rejected, published, erased,
                       removed>>
    BY DEF IInv, Local, Steps, StageNew, install
  <1>2. Local(i) /\ TypeOK /\ Accounted
    BY DEF IInv
  <1>3. /\ disk'[Stage(i)] = i
        /\ \A p \in Places : p # Stage(i) => disk'[p] = disk[p]
        /\ disk' \in [Places -> Things \cup {"none"}]
    BY <1>1, <1>2, PlacesApart, NamesApart DEF TypeOK
  <1>4. \A p \in Places : disk[p] # i
    <2> SUFFICES ASSUME NEW p \in Places, disk[p] = i PROVE FALSE
      OBVIOUS
    <2>1. p # Dest
      BY <1>1, <1>2, NamesApart DEF Accounted
    <2>2. PICK j \in Installers : p = Stage(j) \/ p = Backup(j)
      BY <2>1, PlacesApart
    <2>3. Workspace(j)
      BY DEF IInv, Local
    <2>4. j = i
      BY <1>1, <2>2, <2>3, NamesApart DEF Workspace
    <2> QED BY <1>1, <2>2, <2>4, NamesApart
  <1>5. /\ pc'[i] \in {"recheck", "returned"}
        /\ \A j \in Installers \ {i} : /\ pc'[j] = pc[j]
                                       /\ result'[j] = result[j]
                                       /\ cleanup'[j] = cleanup[j]
        /\ pc'[i] = "recheck" => result'[i] = result[i]
        /\ pc'[i] = "returned" =>
             result'[i] = "failure" /\ cleanup'[i] = "manual-review"
    <2>1. CASE Goto(i, "recheck") /\ UNCHANGED report
      BY <1>2, <2>1, OwnFields DEF report
    <2>2. CASE Fail(i)
      BY <1>2, <2>2, OwnFields DEF Fail
    <2> QED BY <2>1, <2>2 DEF StageNew
  <1>6. TypeOK'
    <2>1. \A p, q \in Places : disk'[p] = disk'[q] /\ disk'[p] # "none" => p = q
      BY <1>2, <1>3, <1>4 DEF TypeOK
    <2>2. /\ pc' \in [Installers \cup Removers ->
               {"idle", "stage", "recheck", "source", "target", "rename",
                "readSource", "readTarget", "gap", "clean", "remove",
                "returned"}]
          /\ result' \in [Installers -> {"none", "success", "failure"}]
          /\ cleanup' \in [Installers -> {"complete", "manual-review"}]
      BY <1>2 DEF TypeOK, StageNew, Goto, Fail, Return, report
    <2> QED BY <1>1, <1>2, <1>3, <2>1, <2>2 DEF TypeOK
  <1>7. Local(i)'
    <2>1. disk'[Backup(i)] = "none"
      BY <1>1, <1>3, PlacesApart
    <2>2. result[i] = "none"
      BY <1>1, <1>2 DEF Local, Outcomes, TypeOK
    <2> QED BY <1>1, <1>2, <1>3, <1>5, <2>1, <2>2, NamesApart
            DEF Local, Steps, Outcomes, Workspace, Moving, Stage, Backup
  <1>8. \A j \in Installers \ {i} : Local(j)'
    <2> SUFFICES ASSUME NEW j \in Installers \ {i} PROVE Local(j)'
      OBVIOUS
    <2>1. disk'[Stage(j)] = disk[Stage(j)] /\ disk'[Backup(j)] = disk[Backup(j)]
      BY <1>3, PlacesApart
    <2>2. Local(j) /\ j \in Installers
      BY DEF IInv
    <2> QED BY <1>1, <1>5, <2>1, <2>2, OthersStay
  <1>9. Accounted'
    <2>1. disk'[Dest] = disk[Dest]
      BY <1>3, PlacesApart
    <2>2. \A x \in published : \/ \E p \in Places : disk'[p] = x
                               \/ x \in removed \cup erased
      <3> SUFFICES ASSUME NEW x \in published, NEW p \in Places, disk[p] = x
                   PROVE  \E q \in Places : disk'[q] = x
        BY <1>2 DEF Accounted
      <3>1. p # Stage(i)
        BY <1>1, <1>2, NamesApart DEF TypeOK, Things
      <3> QED BY <1>3, <3>1
    <2>3. \A x \in erased : \A p \in Places : disk'[p] # x
      BY <1>1, <1>2, <1>3 DEF Accounted
    <2> QED BY <1>1, <1>2, <2>1, <2>2, <2>3 DEF Accounted, Dest
  <1>10. Alone'
    BY <1>1 DEF IInv, Alone
  <1> QED BY <1>6, <1>7, <1>8, <1>9, <1>10 DEF IInv

\* The second look before the first move.
LEMMA RecheckKeeps ==
  ASSUME IInv, NEW i \in Installers, Recheck(i)
  PROVE  IInv'
  <1>1. /\ pc[i] = "recheck" /\ kind[i] = "none" /\ i \notin published
        /\ UNCHANGED <<disk, prior, source, rejected, published, erased,
                       removed>>
    BY DEF IInv, Local, Steps, Recheck
  <1>2. Local(i) /\ TypeOK
    BY DEF IInv
  <1>3. CASE /\ kind' = [kind EXCEPT ![i] = IF prior[i] = "none" THEN "promote"
                                            ELSE "backup"]
             /\ Goto(i, "source") /\ UNCHANGED report
    <2>1. /\ kind'[i] = (IF prior[i] = "none" THEN "promote" ELSE "backup")
          /\ \A j \in Installers \ {i} : kind'[j] = kind[j]
      BY <1>2, <1>3 DEF TypeOK
    <2>2. /\ pc'[i] = "source" /\ result' = result /\ cleanup' = cleanup
          /\ \A j \in Installers \ {i} : pc'[j] = pc[j]
      BY <1>2, <1>3, OwnFields DEF report
    <2>3. TypeOK'
      BY <1>1, <1>2, <1>3 DEF TypeOK, Goto, report
    <2>4. Local(i)'
      BY <1>1, <1>2, <2>1, <2>2
         DEF Local, Steps, Outcomes, Workspace, Moving, Stage, Backup
    <2>5. (\A j \in Installers \ {i} : Local(j)') /\ Accounted'
      BY <1>1, <2>1, <2>2, QuietKeeps
    <2>6. Alone'
      BY <1>1, <2>1 DEF IInv, Alone
    <2> QED BY <2>3, <2>4, <2>5, <2>6 DEF IInv
  <1>4. CASE Fail(i) /\ UNCHANGED kind
    <2>1. /\ pc'[i] = "returned" /\ result'[i] = "failure"
          /\ cleanup'[i] = "manual-review"
          /\ \A j \in Installers \ {i} : /\ pc'[j] = pc[j]
                                         /\ result'[j] = result[j]
                                         /\ cleanup'[j] = cleanup[j]
      BY <1>2, <1>4, OwnFields DEF Fail
    <2>2. TypeOK'
      BY <1>1, <1>2, <1>4 DEF TypeOK, Goto, Fail, Return
    <2>3. Local(i)'
      BY <1>1, <1>2, <1>4, <2>1
         DEF Local, Steps, Outcomes, Workspace, Moving, Stage, Backup
    <2>4. (\A j \in Installers \ {i} : Local(j)') /\ Accounted'
      BY <1>1, <1>4, <2>1, QuietKeeps
    <2>5. Alone'
      BY <1>1, <1>4 DEF IInv, Alone
    <2> QED BY <2>2, <2>3, <2>4, <2>5 DEF IInv
  <1> QED BY <1>3, <1>4 DEF Recheck

\* Going from point to point of one move.
LEMMA MovesOn ==
  ASSUME IInv, NEW i \in Installers, pc[i] \in Moving,
         NEW v \in {"target", "rename", "readSource", "readTarget"}, Goto(i, v),
         UNCHANGED <<disk, prior, kind, report, published, erased, removed>>,
         rejected' \in SUBSET Installers,
         source' \in [Installers -> Things \cup {"none"}]
  PROVE  IInv'
  <1>1. Local(i) /\ TypeOK
    BY DEF IInv
  <1>2. /\ pc'[i] = v /\ result' = result /\ cleanup' = cleanup
        /\ \A j \in Installers \ {i} : pc'[j] = pc[j]
    BY <1>1, OwnFields DEF report
  <1>3. TypeOK'
    BY <1>1 DEF TypeOK, Goto, report
  <1>4. Local(i)'
    BY <1>1, <1>2 DEF Local, Steps, Outcomes, Workspace, Moving, Stage, Backup
  <1>5. (\A j \in Installers \ {i} : Local(j)') /\ Accounted'
    BY <1>2, QuietKeeps
  <1>6. Alone'
    BY DEF IInv, Alone
  <1> QED BY <1>3, <1>4, <1>5, <1>6 DEF IInv

\* The next move, or the end of the last one.
LEMMA TurnsTo ==
  ASSUME IInv, NEW i \in Installers, pc[i] \in Moving \cup {"gap"},
         NEW k \in {"backup", "promote", "restore"},
         NEW v \in {"source", "clean", "gap"}, Goto(i, v),
         kind' = [kind EXCEPT ![i] = k],
         rejected' \in SUBSET Installers,
         UNCHANGED <<disk, prior, source, report, published, erased, removed>>,
         \/ k = "restore" /\ v # "clean"
         \/ k = kind[i] /\ v = "gap"
         \/ k = kind[i] /\ k = "promote" /\ i \in published /\ v = "clean"
         \/ /\ k = "promote" /\ kind[i] = "backup" /\ v = "source"
            /\ disk[Backup(i)] = prior[i]
  PROVE  IInv'
  <1>1. Local(i) /\ TypeOK /\ Accounted
    BY DEF IInv
  <1>2. /\ pc'[i] = v /\ result' = result /\ cleanup' = cleanup
        /\ \A j \in Installers \ {i} : pc'[j] = pc[j]
    BY <1>1, OwnFields DEF report
  <1>3. kind'[i] = k /\ \A j \in Installers \ {i} : kind'[j] = kind[j]
    BY <1>1 DEF TypeOK
  <1>4. TypeOK'
    <2>1. kind' \in [Installers -> {"none", "backup", "promote", "restore"}]
      BY <1>1 DEF TypeOK
    <2>2. pc' \in [Installers \cup Removers ->
            {"idle", "stage", "recheck", "source", "target", "rename",
             "readSource", "readTarget", "gap", "clean", "remove", "returned"}]
      BY <1>1 DEF TypeOK, Goto
    <2> QED BY <1>1, <2>1, <2>2 DEF TypeOK, report
  <1>5. Local(i)'
    <2>1. Steps(i)'
      BY <1>1, <1>2, <1>3 DEF Local, Steps, Moving, Stage, Backup
    <2>2. Outcomes(i)'
      BY <1>1, <1>2, <1>3 DEF Local, Outcomes, Moving, Stage, Backup
    <2>3. Workspace(i)'
      BY <1>1, <1>2, <1>3 DEF Local, Workspace, Stage, Backup
    <2> QED BY <2>1, <2>2, <2>3 DEF Local
  <1>6. (\A j \in Installers \ {i} : Local(j)') /\ Accounted'
    BY <1>2, <1>3, QuietKeeps
  <1>7. Alone'
    <2>1. CASE k = "promote" /\ kind[i] = "backup" /\ disk[Backup(i)] = prior[i]
      <3>1. prior[i] # "none"
        BY <1>1, <2>1 DEF Local, Steps
      <3>2. ASSUME NEW j \in Installers \ {i}, kind[j] = "promote",
                   prior[j] = prior[i]
            PROVE  FALSE
        <4>1. disk[Backup(j)] = prior[i] \/ prior[i] \in erased
          BY <3>1, <3>2 DEF IInv, Local, Workspace
        <4>2. Backup(i) \in Places /\ Backup(j) \in Places
              /\ Backup(i) # Backup(j)
          BY PlacesApart
        <4>3. prior[i] \notin erased
          BY <1>1, <2>1, <4>2 DEF Accounted
        <4>4. \A p, q \in Places :
                disk[p] = disk[q] /\ disk[p] # "none" => p = q
          BY <1>1 DEF TypeOK
        <4> QED BY <2>1, <3>1, <4>1, <4>2, <4>3, <4>4
      <3> QED BY <1>3, <3>2 DEF IInv, Alone
    <2>2. CASE ~(k = "promote" /\ kind[i] = "backup")
      <3>1. \A j \in Installers : kind'[j] = "promote" => kind[j] = "promote"
        BY <1>3, <2>2
      <3> QED BY <3>1 DEF IInv, Alone
    <2> QED BY <2>1, <2>2
  <1> QED BY <1>4, <1>5, <1>6, <1>7 DEF IInv

\* Giving up in the middle of the moves.
LEMMA FailKeeps ==
  ASSUME IInv, NEW i \in Installers, pc[i] \in Moving \cup {"gap"}, Fail(i),
         UNCHANGED <<disk, prior, kind, source, rejected, published, erased,
                     removed>>
  PROVE  IInv'
  <1>1. Local(i) /\ TypeOK
    BY DEF IInv
  <1>2. /\ pc'[i] = "returned" /\ result'[i] = "failure"
        /\ cleanup'[i] = "manual-review"
        /\ \A j \in Installers \ {i} : /\ pc'[j] = pc[j]
                                       /\ result'[j] = result[j]
                                       /\ cleanup'[j] = cleanup[j]
    BY <1>1, OwnFields DEF Fail
  <1>3. TypeOK'
    BY <1>1 DEF TypeOK, Goto, Fail, Return
  <1>4. Local(i)'
    BY <1>1, <1>2 DEF Local, Steps, Outcomes, Workspace, Moving, Stage, Backup
  <1>5. (\A j \in Installers \ {i} : Local(j)') /\ Accounted'
    BY <1>2, QuietKeeps
  <1>6. Alone'
    BY DEF IInv, Alone
  <1> QED BY <1>3, <1>4, <1>5, <1>6 DEF IInv

\* What is concluded from a move, when "applied" is only said of one that was.
LEMMA JudgeKeeps ==
  ASSUME IInv, NEW i \in Installers, pc[i] \in Moving, NEW m, Judge(i, m),
         m = "applied" => disk[To(i)] = Moved(i),
         UNCHANGED <<disk, prior, source, published, erased, removed>>
  PROVE  IInv'
  <1>1. Local(i) /\ TypeOK /\ Accounted
    BY DEF IInv
  <1>2. kind = [kind EXCEPT ![i] = kind[i]] /\ rejected \in SUBSET Installers
        /\ rejected \ {i} \in SUBSET Installers
    BY <1>1 DEF TypeOK
  <1>3. CASE kind[i] = "backup" /\ m = "applied"
               /\ (NextMove(i, "restore") \/ NextMove(i, "promote"))
    <2>1. disk[Backup(i)] = prior[i]
      BY <1>3 DEF To, Moved
    <2> QED BY <1>2, <1>3, <2>1, TurnsTo DEF NextMove
  <1>4. CASE /\ kind[i] = "promote" /\ m = "applied"
             /\ Goto(i, "clean") /\ UNCHANGED <<kind, rejected, report>>
    <2>1. i \in published
      BY <1>1, <1>4, NamesApart DEF To, Moved, Accounted
    <2> QED BY <1>2, <1>4, <2>1, TurnsTo
  <1>5. CASE /\ kind[i] = "promote"
             /\ Goto(i, "gap") /\ UNCHANGED <<kind, rejected, report>>
    BY <1>2, <1>5, TurnsTo
  <1>6. CASE Fail(i) /\ UNCHANGED <<kind, rejected>>
    BY <1>6, FailKeeps
  <1> QED BY <1>3, <1>4, <1>5, <1>6 DEF Judge, Applied

\* The comparisons before a rename.
LEMMA ComparesKeep ==
  ASSUME IInv, NEW i \in Installers,
         CompareSource(i) \/ CompareTarget(i) \/ LstatFails(i)
  PROVE  IInv'
  <1>1. source \in [Installers -> Things \cup {"none"}]
        /\ rejected \in SUBSET Installers
    BY DEF IInv, TypeOK
  <1>2. /\ pc[i] \in Moving
        /\ UNCHANGED <<disk, prior, source, published, erased, removed>>
    BY DEF CompareSource, CompareTarget, LstatFails, Moving
  <1>3. CASE Judge(i, "unknown") \/ Judge(i, "not-applied")
    BY <1>2, <1>3, JudgeKeeps
  <1>4. CASE /\ Goto(i, "target") \/ Goto(i, "rename")
             /\ UNCHANGED <<kind, rejected, report>>
    BY <1>1, <1>2, <1>4, MovesOn
  <1> QED BY <1>3, <1>4 DEF CompareSource, CompareTarget, LstatFails

\* The two reads after a rename.
LEMMA ReadsKeep ==
  ASSUME IInv, NEW i \in Installers, ReadSource(i) \/ ReadTarget(i)
  PROVE  IInv'
  <1>1. CASE ReadSource(i)
    <2>1. From(i) \in Places
      <3>1. kind[i] \in {"backup", "promote", "restore"}
        BY <1>1 DEF IInv, Local, Steps, ReadSource, Moving, TypeOK
      <3> QED BY <3>1, PlacesApart DEF From
    <2>2. source' \in [Installers -> Things \cup {"none"}]
          /\ rejected' \in SUBSET Installers
      BY <1>1, <2>1 DEF ReadSource, IInv, TypeOK
    <2> QED BY <1>1, <2>2, MovesOn DEF ReadSource, Moving
  <1>2. CASE ReadTarget(i)
    <2>1. Mutation(i) = "applied" => disk[To(i)] = Moved(i)
      BY DEF Mutation
    <2> QED BY <1>2, <2>1, JudgeKeeps DEF ReadTarget, Moving
  <1> QED BY <1>1, <1>2

\* The decision to put the old version back.
LEMMA GapKeeps ==
  ASSUME IInv, NEW i \in Installers, Gap(i)
  PROVE  IInv'
  <1>1. rejected \ {i} \in SUBSET Installers
    BY DEF IInv, TypeOK
  <1>2. CASE NextMove(i, "restore")
    BY <1>1, <1>2, TurnsTo DEF Gap, NextMove
  <1>3. CASE Fail(i) /\ UNCHANGED <<kind, rejected>>
    BY <1>3, FailKeeps DEF Gap
  <1> QED BY <1>2, <1>3 DEF Gap

\* What a rename that was done leaves: one thing is somewhere else.
LEMMA Renamed ==
  ASSUME TypeOK, NEW f \in Places, NEW t \in Places,
         disk[f] # "none", disk[t] = "none",
         disk' = [disk EXCEPT ![f] = "none", ![t] = disk[f]]
  PROVE  /\ disk' \in [Places -> Things \cup {"none"}]
         /\ disk'[f] = "none" /\ disk'[t] = disk[f]
         /\ \A p \in Places \ {f, t} : disk'[p] = disk[p]
         /\ \A p, q \in Places :
              disk'[p] = disk'[q] /\ disk'[p] # "none" => p = q
         /\ \A x : x # "none" =>
              (\E p \in Places : disk'[p] = x) <=> \E p \in Places : disk[p] = x
  <1>1. f # t
    OBVIOUS
  <1>2. disk \in [Places -> Things \cup {"none"}]
    BY DEF TypeOK
  <1>3. disk' \in [Places -> Things \cup {"none"}]
    BY <1>2
  <1>4. /\ disk'[f] = "none" /\ disk'[t] = disk[f]
        /\ \A p \in Places \ {f, t} : disk'[p] = disk[p]
    BY <1>1, <1>2
  <1>5. \A p, q \in Places : disk[p] = disk[q] /\ disk[p] # "none" => p = q
    BY DEF TypeOK
  <1>6. \A p, q \in Places : disk'[p] = disk'[q] /\ disk'[p] # "none" => p = q
    BY <1>4, <1>5
  <1>7. \A x : x # "none" =>
          (\E p \in Places : disk'[p] = x) <=> \E p \in Places : disk[p] = x
    BY <1>4
  <1> QED BY <1>3, <1>4, <1>6, <1>7

\* The rename itself: the workspace and the destination exchange something.
LEMMA RenameKeeps ==
  ASSUME IInv, NEW i \in Installers, Rename(i)
  PROVE  IInv'
  <1>1. Local(i) /\ TypeOK /\ Accounted
    BY DEF IInv
  <1>2. /\ pc[i] = "rename" /\ kind[i] \in {"backup", "promote", "restore"}
        /\ result[i] = "none" /\ Goto(i, "readSource")
        /\ UNCHANGED <<prior, kind, source, report, erased, removed>>
        /\ result' = result /\ cleanup' = cleanup
        /\ rejected' \in SUBSET Installers
    BY <1>1 DEF Rename, Local, Steps, Outcomes, Moving, TypeOK, report
  <1>3. CASE UNCHANGED <<disk, published>>
    BY <1>1, <1>2, <1>3, MovesOn DEF Moving, TypeOK
  <1>4. CASE /\ disk[From(i)] # "none" /\ disk[To(i)] = "none"
             /\ disk' = [disk EXCEPT ![From(i)] = "none",
                                     ![To(i)] = disk[From(i)]]
             /\ published' = IF To(i) = Dest THEN published \cup {disk[From(i)]}
                                             ELSE published
    <2> DEFINE f == From(i)
               t == To(i)
               x == disk[f]
    <2>1. /\ f \in Places /\ t \in Places
          /\ f \in {Dest, Stage(i), Backup(i)}
          /\ t \in {Dest, Backup(i)}
      BY <1>2, PlacesApart DEF From, To
    <2>2. /\ disk' \in [Places -> Things \cup {"none"}]
          /\ disk'[f] = "none" /\ disk'[t] = x
          /\ \A p \in Places \ {f, t} : disk'[p] = disk[p]
          /\ \A p, q \in Places : disk'[p] = disk'[q] /\ disk'[p] # "none"
                                    => p = q
          /\ \A y : y # "none" =>
             (\E p \in Places : disk'[p] = y) <=> \E p \in Places : disk[p] = y
      BY <1>1, <1>4, <2>1, Renamed
    <2>3. /\ kind[i] = "backup" =>
               f = Dest /\ t = Backup(i) /\ x \in published /\ x # i
                 /\ i \notin published /\ published' = published
          /\ kind[i] = "promote" =>
               f = Stage(i) /\ t = Dest /\ x = i
                 /\ published' = published \cup {i}
          /\ kind[i] = "restore" =>
               f = Backup(i) /\ t = Dest /\ x \in published
                 /\ published' = published
      BY <1>1, <1>4, PlacesApart
         DEF From, To, Local, Steps, Workspace, Accounted
    <2>4. x # "none" /\ x \in Things /\ published' \subseteq Things
          /\ published \subseteq published'
      BY <1>1, <1>2, <1>4, <2>1, <2>3, NamesApart DEF TypeOK
    <2> HIDE DEF f, t, x
    <2>5. pc'[i] = "readSource" /\ \A j \in Installers \ {i} : pc'[j] = pc[j]
      BY <1>1, <1>2, OwnFields
    <2>6. TypeOK'
      <3>1. pc' \in [Installers \cup Removers ->
              {"idle", "stage", "recheck", "source", "target", "rename",
               "readSource", "readTarget", "gap", "clean", "remove",
               "returned"}]
        BY <1>1, <1>2 DEF TypeOK, Goto
      <3> QED BY <1>1, <1>2, <2>2, <2>4, <3>1 DEF TypeOK
    <2>7. Local(i)'
      <3>1. Steps(i)'
        BY <1>1, <1>2, <2>3, <2>5 DEF Local, Steps, Moving
      <3>2. Outcomes(i)'
        BY <1>2, <2>5 DEF Outcomes
      <3>3. Workspace(i)'
        <4>1. CASE kind[i] = "backup"
          <5>1. disk'[Stage(i)] = disk[Stage(i)] /\ disk'[Backup(i)] = x
            BY <2>2, <2>3, <4>1, PlacesApart
          <5>2. prior[i] # "none"
            BY <1>1, <4>1 DEF Local, Steps
          <5> QED BY <1>1, <1>2, <2>3, <4>1, <5>1, <5>2
                  DEF Local, Workspace, Stage, Backup
        <4>2. CASE kind[i] = "promote"
          <5>1. disk'[Stage(i)] = "none" /\ disk'[Backup(i)] = disk[Backup(i)]
            BY <2>2, <2>3, <4>2, PlacesApart
          <5> QED BY <1>1, <1>2, <2>3, <4>2, <5>1
                  DEF Local, Workspace, Stage, Backup
        <4>3. CASE kind[i] = "restore"
          <5>1. disk'[Stage(i)] = disk[Stage(i)] /\ disk'[Backup(i)] = "none"
            BY <2>2, <2>3, <4>3, PlacesApart
          <5> QED BY <1>1, <1>2, <2>3, <4>3, <5>1, NamesApart
                  DEF Local, Workspace, Stage, Backup
        <4> QED BY <1>2, <4>1, <4>2, <4>3
      <3> QED BY <3>1, <3>2, <3>3 DEF Local
    <2>8. \A j \in Installers \ {i} : Local(j)'
      <3> SUFFICES ASSUME NEW j \in Installers \ {i} PROVE Local(j)'
        OBVIOUS
      <3>1. /\ disk'[Stage(j)] = disk[Stage(j)]
            /\ disk'[Backup(j)] = disk[Backup(j)]
        BY <2>1, <2>2, PlacesApart
      <3>2. Local(j) /\ j \in Installers
        BY DEF IInv
      <3>3. j \in published' => j \in published
        BY <1>2, <2>3
      <3> QED BY <1>2, <2>4, <2>5, <3>1, <3>2, <3>3, OthersStay
    <2>9. Accounted'
      <3>1. disk'[Dest] \in published' \cup {"none"}
        BY <1>2, <2>2, <2>3
      <3>2. ASSUME NEW y \in published'
            PROVE  (\E p \in Places : disk'[p] = y) \/ y \in removed \cup erased
        <4>1. CASE y \in published
          <5>1. y # "none"
            BY <1>1, <4>1, PluginAssumption DEF TypeOK, Things, PluginAssumption
          <5> QED BY <1>1, <2>2, <4>1, <5>1 DEF Accounted
        <4>2. CASE y = x
          BY <2>1, <2>2, <4>2
        <4> QED BY <1>2, <2>3, <4>1, <4>2
      <3>3. ASSUME NEW y \in erased
            PROVE  /\ y \in published' /\ \A p \in Places : disk'[p] # y
                   /\ \E j \in Installers : prior[j] = y /\ j \in published'
        <4>1. y # "none" /\ y \in published
          BY <1>1, PluginAssumption
             DEF TypeOK, Things, PluginAssumption, Accounted
        <4>2. PICK j \in Installers : prior[j] = y /\ j \in published
          BY <1>1 DEF Accounted
        <4>3. \A p \in Places : disk'[p] # y
          BY <1>1, <2>2, <4>1 DEF Accounted
        <4> QED BY <2>4, <4>1, <4>2, <4>3
      <3> QED BY <1>2, <3>1, <3>2, <3>3 DEF Accounted, Dest
    <2>10. Alone'
      BY <1>2 DEF IInv, Alone
    <2> QED BY <2>6, <2>7, <2>8, <2>9, <2>10 DEF IInv
  <1> QED BY <1>3, <1>4 DEF Rename

\* The comparison before the clean-up.
LEMMA CleanKeeps ==
  ASSUME IInv, NEW i \in Installers, Clean(i)
  PROVE  IInv'
  <1>1. Local(i) /\ TypeOK
    BY DEF IInv
  <1>2. /\ pc[i] = "clean" /\ i \in published /\ kind[i] = "promote"
        /\ UNCHANGED <<disk, prior, kind, source, rejected, published, erased,
                       removed>>
    BY <1>1 DEF Clean, Local, Steps, install
  <1>3. CASE Cleanable(i) /\ Goto(i, "remove") /\ UNCHANGED report
    <2>1. /\ pc'[i] = "remove" /\ result' = result /\ cleanup' = cleanup
          /\ \A j \in Installers \ {i} : pc'[j] = pc[j]
      BY <1>1, <1>3, OwnFields DEF report
    <2>2. disk[Backup(i)] \in {prior[i], "none"}
      BY <1>1, <1>3 DEF Cleanable, Local, Workspace
    <2>3. TypeOK'
      BY <1>1, <1>2, <1>3 DEF TypeOK, Goto, report
    <2>4. Local(i)'
      BY <1>1, <1>2, <2>1, <2>2
         DEF Local, Steps, Outcomes, Workspace, Moving, Stage, Backup
    <2>5. (\A j \in Installers \ {i} : Local(j)') /\ Accounted'
      BY <1>2, <2>1, QuietKeeps
    <2>6. Alone'
      BY <1>2 DEF IInv, Alone
    <2> QED BY <2>3, <2>4, <2>5, <2>6 DEF IInv
  <1>4. CASE Return(i, "success", "manual-review")
    <2>1. /\ pc'[i] = "returned" /\ result'[i] = "success"
          /\ cleanup'[i] = "manual-review"
          /\ \A j \in Installers \ {i} : /\ pc'[j] = pc[j]
                                         /\ result'[j] = result[j]
                                         /\ cleanup'[j] = cleanup[j]
      BY <1>1, <1>4, OwnFields
    <2>2. TypeOK'
      BY <1>1, <1>2, <1>4 DEF TypeOK, Goto, Return
    <2>3. Local(i)'
      BY <1>1, <1>2, <2>1
         DEF Local, Steps, Outcomes, Workspace, Moving, Stage, Backup
    <2>4. (\A j \in Installers \ {i} : Local(j)') /\ Accounted'
      BY <1>2, <2>1, QuietKeeps
    <2>5. Alone'
      BY <1>2 DEF IInv, Alone
    <2> QED BY <2>2, <2>3, <2>4, <2>5 DEF IInv
  <1> QED BY <1>3, <1>4 DEF Clean

\* The clean-up erases the replaced version and nothing else.
LEMMA RemoveWorkspaceKeeps ==
  ASSUME IInv, NEW i \in Installers, RemoveWorkspace(i)
  PROVE  IInv'
  <1>1. Local(i) /\ TypeOK /\ Accounted
    BY DEF IInv
  <1>2. /\ pc[i] = "remove" /\ i \in published /\ kind[i] = "promote"
        /\ disk[Backup(i)] \in {prior[i], "none"} /\ disk[Stage(i)] = "none"
        /\ UNCHANGED <<prior, kind, source, rejected, published, removed>>
    BY <1>1 DEF RemoveWorkspace, Local, Steps, Workspace, install
  <1>3. PICK left \in BOOLEAN : Settle(i, left)
    BY DEF RemoveWorkspace
  <1>4. /\ pc'[i] = "returned" /\ result'[i] = "success"
        /\ cleanup'[i] = (IF left THEN "manual-review" ELSE "complete")
        /\ \A j \in Installers \ {i} : /\ pc'[j] = pc[j]
                                       /\ result'[j] = result[j]
                                       /\ cleanup'[j] = cleanup[j]
    BY <1>1, <1>3, OwnFields DEF Settle
  <1>5. /\ pc' \in [Installers \cup Removers ->
             {"idle", "stage", "recheck", "source", "target", "rename",
              "readSource", "readTarget", "gap", "clean", "remove",
              "returned"}]
        /\ result' \in [Installers -> {"none", "success", "failure"}]
        /\ cleanup' \in [Installers -> {"complete", "manual-review"}]
    BY <1>1, <1>3 DEF TypeOK, Settle, Return, Goto
  <1>6. Alone'
    BY <1>2 DEF IInv, Alone
  <1>7. CASE UNCHANGED <<disk, erased>> /\ Settle(i, TRUE)
    <2>1. cleanup'[i] = "manual-review"
      BY <1>1, <1>7 DEF TypeOK, Settle, Return
    <2>2. TypeOK'
      BY <1>1, <1>2, <1>5, <1>7 DEF TypeOK
    <2>3. Local(i)'
      BY <1>1, <1>2, <1>4, <1>7, <2>1
         DEF Local, Steps, Outcomes, Workspace, Moving, Stage, Backup
    <2>4. (\A j \in Installers \ {i} : Local(j)') /\ Accounted'
      BY <1>2, <1>4, <1>7, QuietKeeps
    <2> QED BY <1>6, <2>2, <2>3, <2>4 DEF IInv
  <1>8. CASE /\ disk' = [disk EXCEPT ![Backup(i)] = "none",
                                     ![Stage(i)] = "none"]
             /\ erased' = erased \cup
                            ({disk[Backup(i)], disk[Stage(i)]} \ {"none"})
    <2>1. /\ disk'[Backup(i)] = "none" /\ disk'[Stage(i)] = "none"
          /\ \A p \in Places \ {Backup(i), Stage(i)} : disk'[p] = disk[p]
          /\ disk' \in [Places -> Things \cup {"none"}]
      BY <1>1, <1>8, PlacesApart DEF TypeOK
    <2>2. erased' = erased \cup ({disk[Backup(i)]} \ {"none"})
      BY <1>2, <1>8
    <2>3. /\ disk[Backup(i)] \in published \cup {"none"}
          /\ published \subseteq Things
      BY <1>1 DEF Local, Workspace, TypeOK
    <2>4. \A p, q \in Places : disk[p] = disk[q] /\ disk[p] # "none" => p = q
      BY <1>1 DEF TypeOK
    <2>5. TypeOK'
      <3>1. erased' \subseteq Things
        BY <1>1, <2>2, <2>3 DEF TypeOK
      <3>2. \A p, q \in Places :
              disk'[p] = disk'[q] /\ disk'[p] # "none" => p = q
        BY <2>1, <2>4
      <3> QED BY <1>1, <1>2, <1>5, <2>1, <3>1, <3>2 DEF TypeOK
    <2>6. Local(i)'
      <3>1. Steps(i)' /\ Outcomes(i)'
        BY <1>1, <1>2, <1>4, <2>1
           DEF Local, Steps, Outcomes, Moving, Stage, Backup
      <3>2. Workspace(i)'
        BY <1>1, <1>2, <2>1, <2>2, NamesApart
           DEF Local, Workspace, Stage, Backup
      <3> QED BY <3>1, <3>2 DEF Local
    <2>7. \A j \in Installers \ {i} : Local(j)'
      <3> SUFFICES ASSUME NEW j \in Installers \ {i} PROVE Local(j)'
        OBVIOUS
      <3>1. /\ disk'[Stage(j)] = disk[Stage(j)]
            /\ disk'[Backup(j)] = disk[Backup(j)]
        BY <2>1, PlacesApart
      <3>2. Local(j) /\ j \in Installers
        BY DEF IInv
      <3> QED BY <1>2, <1>4, <2>2, <3>1, <3>2, OthersStay
    <2>8. Accounted'
      <3>1. disk'[Dest] = disk[Dest]
        BY <2>1, PlacesApart
      <3>2. ASSUME NEW y \in published
            PROVE  \/ \E p \in Places : disk'[p] = y
                   \/ y \in removed \cup erased'
        <4>1. CASE y \in removed \cup erased
          BY <2>2, <4>1
        <4>2. CASE \E p \in Places : disk[p] = y
          <5>1. PICK p \in Places : disk[p] = y
            BY <4>2
          <5>2. y # "none"
            BY <2>3, PluginAssumption DEF Things, PluginAssumption
          <5>3. CASE p = Backup(i)
            BY <2>2, <5>1, <5>2, <5>3
          <5>4. CASE p # Backup(i)
            BY <1>2, <2>1, <5>1, <5>2, <5>4
          <5> QED BY <5>3, <5>4
        <4> QED BY <1>1, <4>1, <4>2 DEF Accounted
      <3>3. ASSUME NEW y \in erased'
            PROVE  /\ y \in published /\ \A p \in Places : disk'[p] # y
                   /\ \E j \in Installers : prior[j] = y /\ j \in published
        <4>1. CASE y \in erased
          <5>1. y # "none" /\ y \in published
            BY <1>1, <2>3, <4>1, PluginAssumption
               DEF Accounted, Things, PluginAssumption
          <5>2. \A p \in Places : disk'[p] # y
            BY <1>1, <2>1, <4>1, <5>1 DEF Accounted
          <5> QED BY <1>1, <4>1, <5>1, <5>2 DEF Accounted
        <4>2. CASE y = disk[Backup(i)] /\ y # "none"
          <5>1. \A p \in Places : disk'[p] # y
            BY <2>1, <2>4, <4>2, PlacesApart
          <5>2. prior[i] = y
            BY <1>2, <4>2
          <5> QED BY <1>2, <2>3, <4>2, <5>1, <5>2
        <4> QED BY <2>2, <4>1, <4>2
      <3> QED BY <1>1, <1>2, <3>1, <3>2, <3>3 DEF Accounted, Dest
    <2> QED BY <1>6, <2>5, <2>6, <2>7, <2>8 DEF IInv
  <1> QED BY <1>7, <1>8 DEF RemoveWorkspace

\* Somebody uninstalls.
LEMMA RemoversKeep ==
  ASSUME IInv, NEW u \in Removers, FindInstalled(u) \/ RemoveInstalled(u)
  PROVE  IInv'
  <1>1. TypeOK /\ Accounted
    BY DEF IInv
  <1>2. /\ \A i \in Installers : pc'[i] = pc[i]
        /\ pc' \in [Installers \cup Removers ->
             {"idle", "stage", "recheck", "source", "target", "rename",
              "readSource", "readTarget", "gap", "clean", "remove",
              "returned"}]
        /\ UNCHANGED <<prior, kind, source, rejected, result, cleanup,
                       published, erased>>
    <2>1. PICK v \in {"returned", "remove"} : Goto(u, v)
      BY DEF FindInstalled, RemoveInstalled
    <2> QED BY <1>1, <2>1, NamesApart
            DEF FindInstalled, RemoveInstalled, Goto, TypeOK, install, report
  <1>3. /\ \A p \in Places \ {Dest} : disk'[p] = disk[p]
        /\ disk'[Dest] \in {disk[Dest], "none"}
        /\ disk' \in [Places -> Things \cup {"none"}]
        /\ \/ removed' = removed
           \/ removed' = removed \cup ({disk[Dest]} \ {"none"})
        /\ disk'[Dest] # disk[Dest] =>
             removed' = removed \cup ({disk[Dest]} \ {"none"})
    BY <1>1, PlacesApart DEF FindInstalled, RemoveInstalled, TypeOK
  <1>4. TypeOK'
    <2>1. removed' \subseteq Things
      BY <1>1, <1>3, PlacesApart DEF TypeOK
    <2>2. \A p, q \in Places : disk'[p] = disk'[q] /\ disk'[p] # "none" => p = q
      BY <1>1, <1>3 DEF TypeOK
    <2> QED BY <1>1, <1>2, <1>3, <2>1, <2>2 DEF TypeOK
  <1>5. ASSUME NEW j \in Installers PROVE Local(j)'
    <2>1. disk'[Stage(j)] = disk[Stage(j)] /\ disk'[Backup(j)] = disk[Backup(j)]
      BY <1>3, PlacesApart
    <2>2. Local(j)
      BY DEF IInv
    <2> QED BY <1>2, <2>1, <2>2, OthersStay
  <1>6. Accounted'
    <2>1. \A x \in published : \/ \E p \in Places : disk'[p] = x
                               \/ x \in removed' \cup erased
      <3> SUFFICES ASSUME NEW x \in published, NEW p \in Places, disk[p] = x
                   PROVE  (\E q \in Places : disk'[q] = x) \/ x \in removed'
        BY <1>1, <1>3 DEF Accounted
      <3>1. x # "none"
        BY <1>1, PluginAssumption DEF TypeOK, Things, PluginAssumption
      <3> QED BY <1>3, <3>1
    <2>2. ASSUME NEW x \in erased PROVE \A p \in Places : disk'[p] # x
      <3>1. x # "none"
        BY <1>1, PluginAssumption DEF TypeOK, Things, PluginAssumption
      <3> QED BY <1>1, <1>3, <3>1 DEF Accounted
    <2> QED BY <1>1, <1>2, <1>3, <2>1, <2>2 DEF Accounted, Dest
  <1>7. Alone'
    BY <1>2 DEF IInv, Alone
  <1> QED BY <1>4, <1>5, <1>6, <1>7 DEF IInv

\* Something that is no plugin turns up.
LEMMA IntrudeKeeps ==
  ASSUME IInv, Intrude
  PROVE  IInv'
  <1>1. TypeOK /\ Accounted
    BY DEF IInv
  <1>2. /\ "foreign" \notin published /\ disk[Dest] = "none"
        /\ published' = published \cup {"foreign"}
        /\ UNCHANGED <<pc, prior, kind, source, rejected, result, cleanup,
                       erased, removed>>
    BY DEF Intrude, install, report
  <1>3. /\ disk'[Dest] = "foreign"
        /\ \A p \in Places \ {Dest} : disk'[p] = disk[p]
        /\ disk' \in [Places -> Things \cup {"none"}]
    BY <1>1, PlacesApart DEF Intrude, TypeOK, Things
  <1>4. \A p \in Places : disk[p] # "foreign"
    <2>1. \A i \in Installers : disk[Stage(i)] # "foreign"
                                /\ disk[Backup(i)] # "foreign"
      BY <1>2, NamesApart DEF IInv, Local, Workspace
    <2> QED BY <1>2, <2>1, PlacesApart
  <1>5. TypeOK'
    <2>1. \A p, q \in Places : disk'[p] = disk'[q] /\ disk'[p] # "none" => p = q
      BY <1>1, <1>3, <1>4 DEF TypeOK
    <2>2. published' \subseteq Things
      BY <1>1, <1>2 DEF TypeOK, Things
    <2> QED BY <1>1, <1>2, <1>3, <2>1, <2>2 DEF TypeOK
  <1>6. ASSUME NEW j \in Installers PROVE Local(j)'
    <2>1. disk'[Stage(j)] = disk[Stage(j)] /\ disk'[Backup(j)] = disk[Backup(j)]
      BY <1>3, PlacesApart
    <2>2. Local(j)
      BY DEF IInv
    <2>3. j \in published' => j \in published
      BY <1>2, NamesApart
    <2> QED BY <1>2, <2>1, <2>2, <2>3, OthersStay
  <1>7. Accounted'
    <2>1. ASSUME NEW x \in published'
          PROVE  (\E p \in Places : disk'[p] = x) \/ x \in removed \cup erased
      <3>1. CASE x = "foreign"
        BY <1>3, <3>1, PlacesApart
      <3>2. CASE x \in published
        <4>1. x # "none"
          BY <1>1, <3>2, PluginAssumption DEF TypeOK, Things, PluginAssumption
        <4> QED BY <1>1, <1>2, <1>3, <3>2, <4>1 DEF Accounted
      <3> QED BY <1>2, <3>1, <3>2
    <2>2. ASSUME NEW x \in erased
          PROVE  /\ x \in published' /\ \A p \in Places : disk'[p] # x
                 /\ \E i \in Installers : prior[i] = x /\ i \in published'
      <3>1. x \in published /\ x # "foreign"
        BY <1>1, <1>2 DEF Accounted
      <3> QED BY <1>1, <1>2, <1>3, <3>1 DEF Accounted
    <2> QED BY <1>2, <1>3, <2>1, <2>2 DEF Accounted, Dest
  <1>8. Alone'
    BY <1>2 DEF IInv, Alone
  <1> QED BY <1>5, <1>6, <1>7, <1>8 DEF IInv

\* Every step keeps the inductive invariant.
LEMMA StepKeeps == IInv /\ [Next]_vars => IInv'
  <1> SUFFICES ASSUME IInv, [Next]_vars PROVE IInv'
    OBVIOUS
  <1>1. CASE UNCHANGED vars
    BY <1>1 DEF vars, install, report, IInv, TypeOK, Local, Steps, Outcomes,
                Workspace, Accounted, Alone
  <1>2. CASE \E i \in Installers :
               \/ ReadPrior(i) \/ StageNew(i) \/ Recheck(i)
               \/ CompareSource(i) \/ CompareTarget(i) \/ Rename(i)
               \/ ReadSource(i) \/ ReadTarget(i) \/ LstatFails(i) \/ Gap(i)
               \/ Clean(i) \/ RemoveWorkspace(i)
    BY <1>2, ReadPriorKeeps, StageNewKeeps, RecheckKeeps, ComparesKeep,
       RenameKeeps, ReadsKeep, GapKeeps, CleanKeeps, RemoveWorkspaceKeeps
  <1>3. CASE \E u \in Removers : FindInstalled(u) \/ RemoveInstalled(u)
    BY <1>3, RemoversKeep
  <1>4. CASE Intrude
    BY <1>4, IntrudeKeeps
  <1> QED BY <1>1, <1>2, <1>3, <1>4 DEF Next

\* The invariant of the specification.
LEMMA Inductive == Spec => []IInv
  BY Starts, StepKeeps, PTL DEF Spec

-----------------------------------------------------------------------------
(* What the invariant says of a state.                                      *)

\* A published thing is at the destination, in a backup, or was taken away.
LEMMA Located ==
  ASSUME IInv, NEW x \in published
  PROVE  \/ disk[Dest] = x
         \/ \E j \in Installers : disk[Backup(j)] = x
         \/ x \in removed \cup erased
  <1>1. ASSUME NEW p \in Places, disk[p] = x
        PROVE  disk[Dest] = x \/ \E j \in Installers : disk[Backup(j)] = x
    <2>1. ASSUME NEW j \in Installers, p = Stage(j) PROVE FALSE
      <3>1. Workspace(j) /\ x # "none"
        BY PluginAssumption
           DEF IInv, Local, TypeOK, Things, PluginAssumption
      <3>2. x = j
        BY <1>1, <2>1, <3>1 DEF Workspace
      <3> QED BY <1>1, <2>1, <3>1, <3>2 DEF Workspace
    <2> QED BY <1>1, <2>1, PlacesApart
  <1> QED BY <1>1 DEF IInv, Accounted

\* The invariant implies each property.
LEMMA LosesNothing == IInv => NothingLost
  <1> SUFFICES ASSUME IInv PROVE NothingLost
    OBVIOUS
  <1>1. Accounted
    BY DEF IInv
  <1>2. \A x \in published : x \in Held \/ x \in removed \cup erased
    BY <1>1 DEF Accounted, Held
  <1> QED BY <1>1, <1>2 DEF Accounted, NothingLost

LEMMA Published == IInv => SuccessIsPublished
  <1> SUFFICES ASSUME IInv, NEW i \in Installers, result[i] = "success"
               PROVE  \/ disk[Dest] = i
                      \/ /\ i \in published
                         /\ i \in removed \cup erased \/ BackedUpElsewhere(i, i)
    BY DEF SuccessIsPublished
  <1>1. i \in published /\ disk[Backup(i)] # i
    BY DEF IInv, Local, Outcomes, Workspace
  <1>2. (\E j \in Installers : disk[Backup(j)] = i) => BackedUpElsewhere(i, i)
    BY <1>1 DEF BackedUpElsewhere
  <1> QED BY <1>1, <1>2, Located

LEMMA Recoverable == IInv => FailureIsRecoverable
  <1> SUFFICES ASSUME IInv, NEW i \in Installers, result[i] = "failure",
                      prior[i] # "none"
               PROVE  \/ disk[Dest] = prior[i]
                      \/ /\ disk[Backup(i)] = prior[i]
                         /\ cleanup[i] = "manual-review"
                      \/ prior[i] \in removed \cup erased
                      \/ BackedUpElsewhere(i, prior[i])
    BY DEF FailureIsRecoverable
  <1>1. prior[i] \in published /\ cleanup[i] = "manual-review"
    BY DEF IInv, Local, Outcomes, Workspace, TypeOK
  <1>2. \/ disk[Dest] = prior[i]
        \/ \E j \in Installers : disk[Backup(j)] = prior[i]
        \/ prior[i] \in removed \cup erased
    BY <1>1, Located
  <1> QED BY <1>1, <1>2 DEF BackedUpElsewhere

LEMMA TellsTheTruth == IInv => OutcomeIsTrue
  <1>1. IInv => CompleteMeansClean
    BY DEF IInv, Local, Outcomes, CompleteMeansClean
  <1> QED BY <1>1, Published, Recoverable DEF IInv, OutcomeIsTrue

LEMMA LosesNoUpdate == IInv => NoLostUpdate
  <1> SUFFICES ASSUME IInv, NEW i \in Installers, NEW j \in Installers, i # j,
                      result[i] = "success", result[j] = "success",
                      prior[i] = prior[j]
               PROVE  /\ prior[i] = "none"
                      /\ \E x \in {i, j} : \/ x \in removed \cup erased
                                           \/ BackedUpElsewhere(x, x)
    BY DEF NoLostUpdate
  <1>1. kind[i] = "promote" /\ kind[j] = "promote"
    BY DEF IInv, Local, Outcomes
  <1>2. prior[i] = "none"
    BY <1>1 DEF IInv, Alone
  <1>3. \A x \in {i, j} : disk[Dest] = x \/ x \in removed \cup erased
                                         \/ BackedUpElsewhere(x, x)
    BY Published DEF SuccessIsPublished
  <1> QED BY <1>2, <1>3

-----------------------------------------------------------------------------
(* The theorems.                                                            *)

\* No failed, colliding or interrupted replacement loses a version: only the
\* clean-up of an installer that replaced it with its own published one deletes
\* it (plugin-replacement.ts:176-184).
THEOREM NeverLost == Spec => []NothingLost
  BY Inductive, LosesNothing, PTL

\* A success was published, a failure leaves the old version where the result
\* says, and a complete clean-up leaves nothing (plugin-replacement.ts:88-93,
\* 151-201).
THEOREM OutcomesAreTrue == Spec => []OutcomeIsTrue
  BY Inductive, TellsTheTruth, PTL

\* Of the installers that found one version only one succeeds in replacing it
\* (plugin-replacement.ts:101-104, 148-150).
THEOREM UpdatesAreNotLost == Spec => []NoLostUpdate
  BY Inductive, LosesNoUpdate, PTL
=============================================================================
