------------------------- MODULE HookInstallProofs -------------------------
(***************************************************************************)
(* Proofs about HookInstall: the user's bytes survive, no half migration,  *)
(* and the reports are true, for any number of slots, installers and names *)
(* of backups and whatever is in the repository at the start.              *)
(***************************************************************************)
EXTENDS HookInstall, TLAPS

Guarding == {"guard", "scopes", "local", "unset"}
Loop == {"classify", "repair", "read", "backup", "open", "truncate", "fill",
         "chmod"}

Forced == \E i \in start.active : WithForce(i)
Saved(s) == (\E n \in Names : backup[s][n] = mine[s]) /\ Forced
\* The user's last bytes are in the slot, and were when it was classified.
InPlace(s) == mine[s] # "none" /\ s \notin window /\ hook[s] = mine[s]
\* As the release has it, or being written.
Good(s) == hook[s] \in {"current", "empty"}

\* What may be under the names of backups.
BackupNames == [Slots -> [Names -> Regular \cup {"free", "old", "link"}]]

\* The shape of the state, where TypeOK leaves it open.
Shapes ==
  /\ TypeOK
  /\ foreigners \in [Installers -> SUBSET Slots]
  /\ done \in [Installers -> SUBSET Slots]
  /\ errors \in [Installers -> SUBSET Slots]
  /\ declined \in [Installers -> SUBSET Slots]

\* How far a call is, and what that says of the scopes of git's configuration.
Course(i) ==
  /\ pc[i] # "off" => i \in start.active
  /\ pc[i] \in Guarding => done[i] = {} /\ errors[i] = {}
  /\ pc[i] \in Loop => \A s \in done[i] \cup errors[i] : s < slot[i]
  /\ pc[i] = "backup" => bytes[i] \in Regular
  /\ pc[i] \in {"local", "unset", "returned"} \cup Loop => ~start.shadow
  /\ pc[i] \in {"returned"} \cup Loop => local = "unset"
  /\ pc[i] = "unset" => Migrates(i) /\ start.local = "legacy"
\* A foreign hook that was asleep is among those the guard found.
Found(i) ==
  pc[i] \in Guarding =>
    \A s \in Slots \ (touched \cup start.unlisted) :
      start.hook[s] = "foreign" /\ (pc[i] = "guard" => s < slot[i]) =>
        s \in foreigners[i] \/ Forced
\* Between classification and write the user's bytes are on their way into a
\* backup.
Judging(i) ==
  /\ pc[i] = "read" /\ InPlace(slot[i]) => WithForce(i)
  /\ pc[i] = "backup" /\ InPlace(slot[i]) =>
       WithForce(i) /\ bytes[i] = mine[slot[i]]
  /\ pc[i] \in {"open", "truncate", "fill"} /\ InPlace(slot[i]) =>
       Saved(slot[i])
\* What is written is the file in the slot, unless a user replaced it.
Writes(i) ==
  /\ pc[i] \in {"truncate", "fill", "chmod"} /\ slot[i] \notin touched =>
       fd[i] = inode[slot[i]] /\ hook[slot[i]] \in Regular
  /\ pc[i] \in {"repair", "chmod"} /\ slot[i] \notin touched => Good(slot[i])
Reported(i) ==
  \A s \in done[i] \ touched : Good(s) /\ exec[s]
Local(i) == Course(i) /\ Found(i) /\ Judging(i) /\ Writes(i) /\ Reported(i)

\* Where the user's bytes are, and what an untouched slot had.
Preserved ==
  /\ \A s \in Slots :
       mine[s] # "none" /\ s \notin window => hook[s] = mine[s] \/ Saved(s)
  /\ \A s \in Slots \ touched :
       /\ inode[s] = 0
       /\ start.hook[s] = "foreign" => mine[s] = "foreign"
  /\ \A s \in Slots, n \in Names :
       start.backup[s][n] # "free" => backup[s][n] = start.backup[s][n]
\* Who will fill an emptied hook, and who reports a broken one.
Torn ==
  /\ \A s \in Slots : hook[s] = "empty" =>
       \/ s \in broken
       \/ \E i \in Installers : /\ pc[i] \in {"truncate", "fill"}
                                /\ slot[i] = s /\ fd[i] = inode[s]
  /\ \A s \in broken : \E i \in Installers :
       pc[i] = "crashed" \/ s \in errors[i]
Migrated ==
  local # start.local =>
    /\ start.local = "legacy" /\ local = "unset" /\ ~start.shadow
    /\ \/ Forced
       \/ \A s \in Slots \ (touched \cup start.unlisted) :
            start.hook[s] # "foreign"

IInv == /\ Shapes /\ \A i \in Installers : Local(i)
        /\ Preserved /\ Torn /\ Migrated

-----------------------------------------------------------------------------

\* What the steps of one installer leave alone.
Others(i) ==
  \A j \in Installers \ {i} :
    /\ pc'[j] = pc[j] /\ slot'[j] = slot[j] /\ bytes'[j] = bytes[j]
    /\ fd'[j] = fd[j] /\ foreigners'[j] = foreigners[j] /\ done'[j] = done[j]
    /\ errors'[j] = errors[j] /\ declined'[j] = declined[j]
\* What they may do to what all of them share.
Shared ==
  /\ UNCHANGED <<start, inode, mine, touched, window>>
  /\ local' \in {local, "unset"}
  /\ \A s \in Slots : /\ exec[s] => exec'[s]
                      /\ hook'[s] = hook[s] \/ Good(s)'
  /\ \A s \in Slots, n \in Names :
       backup'[s][n] = backup[s][n] \/ backup[s][n] = "free"

\* Once saved, always saved.
LEMMA SavedStays ==
  ASSUME Shapes, Shared, NEW s \in Slots, mine[s] # "none", Saved(s)
  PROVE  Saved(s)'
  BY DEF Shapes, TypeOK, Shared, Saved, Forced, WithForce, Users

\* An installer that does nothing stays as it is.
LEMMA OthersStay ==
  ASSUME Shapes, Shared, NEW i \in Installers, Others(i),
         NEW j \in Installers \ {i}, Local(j)
  PROVE  Local(j)'
  <1>1. /\ pc'[j] = pc[j] /\ slot'[j] = slot[j] /\ bytes'[j] = bytes[j]
        /\ fd'[j] = fd[j] /\ foreigners'[j] = foreigners[j]
        /\ done'[j] = done[j] /\ errors'[j] = errors[j]
    BY DEF Others
  <1>2. pc[j] \in {"repair", "read", "backup", "open", "truncate", "fill",
                   "chmod"} => slot[j] \in Slots
    BY DEF Shapes, TypeOK, Points, Ended
  <1>3. Course(j)'
    BY <1>1 DEF Local, Course, Shared, Migrates, WithForce
  <1>4. Found(j)'
    BY <1>1 DEF Local, Found, Shared, Forced, WithForce
  <1>5. ASSUME NEW s \in Slots, InPlace(s)' PROVE InPlace(s)
    BY <1>5 DEF Shared, InPlace, Good, Shapes, TypeOK, Users
  <1>6. Judging(j)'
    <2>1. ASSUME NEW s \in Slots, InPlace(s), Saved(s) PROVE Saved(s)'
      BY <2>1, SavedStays DEF InPlace
    <2> QED BY <1>1, <1>2, <1>5, <2>1 DEF Local, Judging, Shared, WithForce
  <1>7. Writes(j)'
    BY <1>1, <1>2 DEF Local, Writes, Shared, Good, Regular, Users
  <1>8. Reported(j)'
    BY <1>1 DEF Local, Reported, Shared, Good, Shapes
  <1> QED BY <1>3, <1>4, <1>6, <1>7, <1>8 DEF Local

\* The user's bytes stay, where what replaces them is judged.
LEMMA PreservedStays ==
  ASSUME IInv, Shared,
         \A s \in Slots : hook'[s] # hook[s] /\ InPlace(s) => Saved(s)
  PROVE  Preserved'
  <1>1. ASSUME NEW s \in Slots, mine[s] # "none", s \notin window
        PROVE  hook'[s] = mine[s] \/ Saved(s)'
    BY <1>1, SavedStays DEF IInv, Preserved, InPlace
  <1>2. \A s \in Slots, n \in Names :
          start.backup[s][n] # "free" => backup'[s][n] = start.backup[s][n]
    BY DEF IInv, Preserved, Shared
  <1> QED BY <1>1, <1>2 DEF IInv, Preserved, Shared, Saved, Forced, WithForce

\* A step that truncates nothing and is no end of a write.
LEMMA TornStays ==
  ASSUME IInv, Shared, NEW i \in Installers, Others(i), hook' = hook,
         broken' = broken, pc[i] \notin {"truncate", "fill", "crashed"},
         errors[i] \subseteq errors'[i]
  PROVE  Torn'
  <1>1. ASSUME NEW s \in Slots, hook[s] = "empty"
        PROVE  \/ s \in broken
               \/ \E j \in Installers : /\ pc'[j] \in {"truncate", "fill"}
                                        /\ slot'[j] = s /\ fd'[j] = inode[s]
    BY <1>1 DEF IInv, Torn, Others
  <1>2. ASSUME NEW s \in broken
        PROVE  \E j \in Installers : pc'[j] = "crashed" \/ s \in errors'[j]
    BY <1>2 DEF IInv, Torn, Others
  <1> QED BY <1>1, <1>2 DEF Torn, Shared

\* What remains to show of a step that leaves the hooks alone.
LEMMA QuietKeeps ==
  ASSUME IInv, Shared, NEW i \in Installers, Others(i), hook' = hook,
         broken' = broken, pc[i] \notin {"truncate", "fill", "crashed"},
         errors[i] \subseteq errors'[i],
         Shapes', Local(i)', Migrated'
  PROVE  IInv'
  <1>1. \A j \in Installers \ {i} : Local(j)'
    BY OthersStay DEF IInv
  <1>2. Preserved' /\ Torn'
    BY PreservedStays, TornStays
  <1> QED BY <1>1, <1>2 DEF IInv

\* A step that leaves core.hooksPath alone.
LEMMA MigratedStays ==
  ASSUME IInv, Shared, local' = local
  PROVE  Migrated'
  BY DEF IInv, Migrated, Shared, Forced, WithForce

-----------------------------------------------------------------------------

\* The initial states have the invariant.
LEMMA Starts == Init => IInv
  <1> SUFFICES ASSUME Init PROVE IInv
    OBVIOUS
  <1>1. start \in Scene
    BY HookAssumption DEF Init, HookAssumption
  <1>2. /\ hook \in [Slots -> Kinds \ {"late", "empty"}]
        /\ exec \in [Slots -> BOOLEAN] /\ linked \subseteq Slots
        /\ backup \in [Slots -> [Names -> {"free", "old", "link"}]]
        /\ local \in {"unset", "legacy", "other"}
        /\ start.active \subseteq Installers
    BY <1>1 DEF Init, Scene
  <1>3. 1 \in Slots /\ 1 \in Names /\ 1 \in 1..(NumSlots + 1)
    BY HookAssumption DEF HookAssumption, Slots, Names
  <1>4. Shapes
    <2>1. /\ mine \in [Slots -> Users \cup {"none"}]
          /\ hook \in [Slots -> Kinds]
          /\ backup \in BackupNames
      BY <1>2 DEF Init, Users, Kinds, BackupNames
    <2>2. \A i \in Installers : pc[i] \in {"guard", "off"} /\ slot[i] = 1
      BY DEF Init
    <2>3. pc \in [Installers -> Points]
      BY DEF Init, Points, Ended
    <2> QED BY <1>2, <1>3, <2>1, <2>2, <2>3 DEF Init, Shapes, TypeOK
  <1>5. ASSUME NEW i \in Installers PROVE Local(i)
    BY <1>3 DEF Init, Local, Course, Found, Judging, Writes, Reported, Guarding,
                Loop, Slots
  <1>6. Preserved
    BY <1>2 DEF Init, Preserved, Users, Kinds, Regular
  <1>7. Torn /\ Migrated
    BY <1>2 DEF Init, Torn, Migrated
  <1> QED BY <1>4, <1>5, <1>6, <1>7 DEF IInv

\* Going on.
LEMMA Moves ==
  ASSUME Shapes, NEW i \in Installers, NEW v \in Points, Goto(i, v)
  PROVE  /\ pc'[i] = v /\ \A j \in Installers \ {i} : pc'[j] = pc[j]
         /\ pc' \in [Installers -> Points]
  BY DEF Goto, Shapes, TypeOK

\* Going on to the next slot, with an error or without.
LEMMA Turns ==
  ASSUME Shapes, NEW i \in Installers, slot[i] \in Slots,
         Fail(i) \/ Succeed(i)
  PROVE  /\ pc'[i] = "classify" /\ pc' \in [Installers -> Points]
         /\ slot'[i] = slot[i] + 1
         /\ slot' \in [Installers -> 1..(NumSlots + 1)]
         /\ errors' \in [Installers -> SUBSET Slots]
         /\ done' \in [Installers -> SUBSET Slots]
         /\ \A j \in Installers \ {i} :
              /\ pc'[j] = pc[j] /\ slot'[j] = slot[j]
              /\ done'[j] = done[j] /\ errors'[j] = errors[j]
         /\ Fail(i) => /\ errors'[i] = errors[i] \cup {slot[i]}
                       /\ done'[i] = done[i]
         /\ Succeed(i) => /\ done'[i] = done[i] \cup {slot[i]}
                          /\ errors'[i] = errors[i]
  <1>1. slot[i] + 1 \in 1..(NumSlots + 1)
    BY HookAssumption DEF Slots, HookAssumption
  <1>2. /\ pc'[i] = "classify" /\ pc' \in [Installers -> Points]
        /\ slot'[i] = slot[i] + 1
        /\ slot' \in [Installers -> 1..(NumSlots + 1)]
        /\ \A j \in Installers \ {i} : pc'[j] = pc[j] /\ slot'[j] = slot[j]
    <2>1. Goto(i, "classify") /\ slot' = [slot EXCEPT ![i] = @ + 1]
      BY DEF Fail, Succeed, NextSlot
    <2>2. "classify" \in Points
      BY DEF Points
    <2>3. slot \in [Installers -> 1..(NumSlots + 1)]
      BY DEF Shapes, TypeOK
    <2>4. /\ slot'[i] = slot[i] + 1
          /\ slot' \in [Installers -> 1..(NumSlots + 1)]
          /\ \A j \in Installers \ {i} : slot'[j] = slot[j]
      BY <1>1, <2>1, <2>3
    <2> QED BY <2>1, <2>2, <2>4, Moves
  <1>3. CASE Fail(i)
    <2>1. /\ errors'[i] = errors[i] \cup {slot[i]} /\ done' = done
          /\ errors' \in [Installers -> SUBSET Slots]
          /\ \A j \in Installers \ {i} : errors'[j] = errors[j]
      BY <1>3 DEF Fail, Shapes
    <2>2. Succeed(i) => done'[i] = done[i] \cup {slot[i]}
                        /\ errors'[i] = errors[i]
      BY DEF Succeed, Shapes
    <2> QED BY <1>2, <2>1, <2>2 DEF Shapes
  <1>4. CASE Succeed(i)
    <2>1. /\ done'[i] = done[i] \cup {slot[i]} /\ errors' = errors
          /\ done' \in [Installers -> SUBSET Slots]
          /\ \A j \in Installers \ {i} : done'[j] = done[j]
      BY <1>4 DEF Succeed, Shapes
    <2>2. Fail(i) => errors'[i] = errors[i] \cup {slot[i]} /\ done'[i] = done[i]
      BY DEF Fail, Shapes
    <2> QED BY <1>2, <2>1, <2>2 DEF Shapes
  <1> QED BY <1>3, <1>4

\* The shape after a slot was left.
LEMMA ShapesStay ==
  ASSUME Shapes, NEW i \in Installers, pc'[i] = "classify",
         UNCHANGED <<start, hook, inode, linked, local, name, bytes, fd,
                     foreigners, mine, touched, window>>,
         exec' \in [Slots -> BOOLEAN],
         backup' \in BackupNames,
         pc' \in [Installers -> Points],
         slot' \in [Installers -> 1..(NumSlots + 1)],
         done' \in [Installers -> SUBSET Slots],
         errors' \in [Installers -> SUBSET Slots],
         declined' \in [Installers -> SUBSET Slots],
         \A j \in Installers \ {i} :
           /\ pc'[j] = pc[j] /\ slot'[j] = slot[j] /\ done'[j] = done[j]
           /\ errors'[j] = errors[j] /\ declined'[j] = declined[j],
         declined'[i] \subseteq errors'[i],
         done'[i] \subseteq Slots \ errors'[i],
         broken' \subseteq Slots
  PROVE  Shapes'
  <1>1. \A j \in Installers :
          /\ foreigners'[j] \subseteq Slots
          /\ declined'[j] \subseteq errors'[j] /\ errors'[j] \subseteq Slots
          /\ done'[j] \subseteq Slots \ errors'[j]
          /\ pc'[j] \in Points \ Ended => slot'[j] \in Slots
                                           \/ pc'[j] = "classify"
    BY DEF Shapes, TypeOK
  <1> QED BY <1>1 DEF Shapes, TypeOK, BackupNames

\* A slot that was left, with an error or with the hook it should have.
LEMMA TurnKeeps ==
  ASSUME IInv, Shared, NEW i \in Installers, pc[i] \in Loop, slot[i] \in Slots,
         \/ Fail(i)
         \/ Succeed(i) /\ (slot[i] \notin touched =>
                             /\ hook'[slot[i]] \in {"current", "empty"}
                             /\ exec'[slot[i]])
  PROVE  Local(i)'
  <1>1. /\ pc'[i] = "classify" /\ slot'[i] = slot[i] + 1
        /\ Fail(i) => /\ errors'[i] = errors[i] \cup {slot[i]}
                      /\ done'[i] = done[i]
        /\ Succeed(i) => /\ done'[i] = done[i] \cup {slot[i]}
                         /\ errors'[i] = errors[i]
    BY Turns DEF IInv
  <1>2. Local(i) /\ Shapes
    BY DEF IInv
  <1>3. Course(i)'
    <2>1. \A s \in done'[i] \cup errors'[i] : s < slot'[i]
      BY <1>1, <1>2 DEF Local, Course, Loop, Shapes, Slots
    <2> QED BY <1>1, <1>2, <2>1
            DEF Local, Course, Loop, Guarding, Shared
  <1>4. Found(i)' /\ Judging(i)' /\ Writes(i)'
    BY <1>1 DEF Found, Judging, Writes, Guarding
  <1>5. Reported(i)'
    <2>1. ASSUME NEW s \in done[i], s \notin touched PROVE (Good(s) /\ exec[s])'
      BY <1>2, <2>1 DEF Local, Reported, Shared, Good, Shapes
    <2> QED BY <1>1, <2>1 DEF Reported, Shared, Good
  <1> QED BY <1>3, <1>4, <1>5 DEF Local

-----------------------------------------------------------------------------
(* The guard.                                                               *)

\* A call that ends in its guard changes nothing.
LEMMA GuardEnds ==
  ASSUME IInv, NEW i \in Installers, pc[i] \in Guarding,
         NEW v \in {"refused", "threw"}, Goto(i, v),
         UNCHANGED <<start, disk, local, work, report, history, broken>>
  PROVE  IInv'
  <1>1. Shapes /\ Local(i)
    BY DEF IInv
  <1>2. /\ pc'[i] = v /\ \A j \in Installers \ {i} : pc'[j] = pc[j]
        /\ pc' \in [Installers -> Points]
    BY <1>1, Moves DEF Points, Ended
  <1>3. Shared /\ Others(i) /\ Migrated'
    <2>1. Shared /\ Others(i)
      BY <1>2 DEF Shared, Others, disk, work, report, history
    <2> QED BY <2>1, MigratedStays
  <1>4. Shapes'
    BY <1>1, <1>2 DEF Shapes, TypeOK, disk, work, report, history, Guarding,
                      Ended
  <1>5. Local(i)'
    BY <1>1, <1>2 DEF Local, Course, Found, Judging, Writes, Reported, Good,
                      Guarding, Loop, disk, work, report, history
  <1> QED BY <1>2, <1>3, <1>4, <1>5, QuietKeeps
          DEF disk, report, history, Guarding

\* Or goes on to the next scope.
LEMMA GuardGoesOn ==
  ASSUME IInv, NEW i \in Installers,
         \/ pc[i] = "scopes" /\ ~start.shadow /\ Goto(i, "local")
         \/ pc[i] = "local" /\ local = "unset" /\ Goto(i, "classify")
         \/ /\ pc[i] = "local" /\ local = "legacy" /\ Migrates(i)
            /\ Goto(i, "unset"),
         UNCHANGED <<start, disk, local, work, report, history, broken>>
  PROVE  IInv'
  <1>1. Shapes /\ Local(i) /\ Migrated
    BY DEF IInv
  <1>2. PICK v \in {"local", "classify", "unset"} : Goto(i, v)
    OBVIOUS
  <1>3. /\ pc'[i] = v /\ \A j \in Installers \ {i} : pc'[j] = pc[j]
        /\ pc' \in [Installers -> Points]
    BY <1>1, <1>2, Moves DEF Points, Ended
  <1>4. Shared /\ Others(i) /\ Migrated'
    <2>1. Shared /\ Others(i)
      BY <1>3 DEF Shared, Others, disk, work, report, history
    <2> QED BY <2>1, MigratedStays
  <1>5. Shapes'
    <2>1. slot[i] \in Slots
      BY <1>1 DEF Shapes, TypeOK, Points, Ended
    <2> QED BY <1>1, <1>3, <2>1
            DEF Shapes, TypeOK, disk, work, report, history
  <1>6. Course(i)'
    <2>1. pc'[i] = "local" => pc[i] = "scopes" /\ ~start.shadow
      BY <1>1, <1>3 DEF Goto, Shapes, TypeOK
    <2>2. pc'[i] = "classify" => pc[i] = "local" /\ local = "unset"
      BY <1>1, <1>3 DEF Goto, Shapes, TypeOK
    <2>3. pc'[i] = "unset" => pc[i] = "local" /\ local = "legacy" /\ Migrates(i)
      BY <1>1, <1>3 DEF Goto, Shapes, TypeOK
    <2>4. local = "legacy" => start.local = "legacy"
      BY <1>1 DEF Migrated
    <2> QED BY <1>1, <1>3, <2>1, <2>2, <2>3, <2>4
            DEF Local, Course, Guarding, Loop, disk, work, report, history,
                Migrates, WithForce
  <1>7. Found(i)'
    BY <1>1, <1>3 DEF Local, Found, Guarding, disk, work, report, history,
                      Forced, WithForce
  <1>8. Judging(i)' /\ Writes(i)'
    BY <1>3 DEF Judging, Writes
  <1>9. Reported(i)'
    BY <1>1 DEF Local, Reported, Good, disk, report, history
  <1> QED BY <1>3, <1>4, <1>5, <1>6, <1>7, <1>8, <1>9, QuietKeeps
          DEF disk, report, history, Local

\* The guard looks at a slot.
LEMMA GuardSlotKeeps ==
  ASSUME IInv, NEW i \in Installers, GuardSlot(i)
  PROVE  IInv'
  <1>1. Shapes /\ Local(i) /\ pc[i] = "guard" /\ slot[i] \in Slots
    BY DEF IInv, GuardSlot, Shapes, TypeOK, Points, Ended
  <1>2. CASE Goto(i, "threw") /\ UNCHANGED <<slot, foreigners>>
    BY <1>1, <1>2, GuardEnds DEF GuardSlot, work, report, Guarding
  <1>3. CASE /\ foreigners' =
                  IF Class(slot[i]) = "foreign" /\ slot[i] \notin start.unlisted
                  THEN [foreigners EXCEPT ![i] = @ \cup {slot[i]}]
                  ELSE foreigners
             /\ IF slot[i] < NumSlots
                THEN slot' = [slot EXCEPT ![i] = @ + 1] /\ UNCHANGED pc
                ELSE slot' = [slot EXCEPT ![i] = 1] /\ Goto(i, "scopes")
    <2>1. /\ UNCHANGED <<start, hook, exec, inode, linked, backup, local, name,
                         bytes, fd, done, errors, declined, mine, touched,
                         window, broken>>
      BY DEF GuardSlot, disk, report, history
    <2>2. /\ foreigners'[i] = foreigners[i] \cup
                 (IF Class(slot[i]) = "foreign" /\ slot[i] \notin start.unlisted
                  THEN {slot[i]} ELSE {})
          /\ \A j \in Installers \ {i} : foreigners'[j] = foreigners[j]
          /\ foreigners' \in [Installers -> SUBSET Slots]
      BY <1>1, <1>3 DEF Shapes
    <2>3. /\ \A j \in Installers \ {i} : pc'[j] = pc[j] /\ slot'[j] = slot[j]
          /\ pc' \in [Installers -> Points]
          /\ slot' \in [Installers -> 1..(NumSlots + 1)]
          /\ slot'[i] \in Slots
          /\ \/ slot[i] < NumSlots /\ pc'[i] = "guard" /\ slot'[i] = slot[i] + 1
             \/ slot[i] = NumSlots /\ pc'[i] = "scopes" /\ slot'[i] = 1
      <3>1. /\ slot \in [Installers -> 1..(NumSlots + 1)]
            /\ pc \in [Installers -> Points]
            /\ NumSlots \in Nat \ {0} /\ slot[i] \in 1..NumSlots
        BY <1>1, HookAssumption DEF Shapes, TypeOK, Slots, HookAssumption
      <3>2. CASE slot[i] < NumSlots
        <4>1. slot' = [slot EXCEPT ![i] = @ + 1] /\ pc' = pc
          BY <1>3, <3>2
        <4> QED BY <1>1, <3>1, <3>2, <4>1 DEF Slots
      <3>3. CASE ~(slot[i] < NumSlots)
        <4>1. slot' = [slot EXCEPT ![i] = 1] /\ Goto(i, "scopes")
          BY <1>3, <3>3
        <4>2. "scopes" \in Points
          BY DEF Points
        <4> QED BY <1>1, <3>1, <3>3, <4>1, <4>2, Moves DEF Slots
      <3> QED BY <3>2, <3>3
    <2>4. Shared /\ Others(i) /\ Migrated'
      <3>1. Shared /\ Others(i)
        BY <2>1, <2>2, <2>3 DEF Shared, Others
      <3> QED BY <2>1, <3>1, MigratedStays
    <2>5. Shapes'
      BY <1>1, <2>1, <2>2, <2>3 DEF Shapes, TypeOK
    <2>6. Found(i)'
      <3> SUFFICES ASSUME NEW s \in Slots \ (touched \cup start.unlisted),
                          start.hook[s] = "foreign",
                          pc'[i] = "guard" => s < slot'[i]
                   PROVE  s \in foreigners'[i] \/ Forced
        BY <2>1 DEF Found, Forced, WithForce
      <3>1. CASE s < slot[i]
        BY <1>1, <2>2, <3>1 DEF Local, Found, Guarding
      <3>2. CASE s = slot[i]
        <4>1. hook[s] = "foreign" \/ Forced
          BY DEF IInv, Preserved, Saved, Shapes, TypeOK
        <4>2. hook[s] = "foreign" => Class(s) = "foreign"
          BY DEF Class
        <4> QED BY <2>2, <3>2, <4>1, <4>2
      <3> QED BY <1>1, <2>3, <3>1, <3>2 DEF Slots
    <2>7. Course(i)'
      BY <1>1, <2>1, <2>3 DEF Local, Course, Guarding, Loop
    <2>8. Judging(i)' /\ Writes(i)'
      BY <2>3 DEF Judging, Writes
    <2>9. Reported(i)'
      BY <1>1, <2>1 DEF Local, Reported, Good
    <2> QED BY <1>1, <2>1, <2>4, <2>5, <2>6, <2>7, <2>8, <2>9, QuietKeeps
            DEF Local
  <1> QED BY <1>2, <1>3 DEF GuardSlot

\* core.hooksPath is given up.
LEMMA UnsetKeeps ==
  ASSUME IInv, NEW i \in Installers, Unset(i)
  PROVE  IInv'
  <1>1. Shapes /\ Local(i) /\ pc[i] = "unset" /\ slot[i] \in Slots
    BY DEF IInv, Unset, Shapes, TypeOK, Points, Ended
  <1>2. CASE Goto(i, "threw") /\ UNCHANGED local
    BY <1>1, <1>2, GuardEnds DEF Unset, Guarding
  <1>3. CASE local = "legacy" /\ local' = "unset" /\ Goto(i, "classify")
    <2>1. /\ UNCHANGED <<start, hook, exec, inode, linked, backup, slot, name,
                         bytes, fd, foreigners, done, errors, declined, mine,
                         touched, window, broken>>
      BY DEF Unset, disk, work, report, history
    <2>2. /\ pc'[i] = "classify" /\ \A j \in Installers \ {i} : pc'[j] = pc[j]
          /\ pc' \in [Installers -> Points]
      BY <1>1, <1>3, Moves DEF Points
    <2>3. Shared /\ Others(i)
      BY <1>3, <2>1, <2>2 DEF Shared, Others
    <2>4. Migrated'
      <3>1. \/ Forced
            \/ \A s \in Slots \ (touched \cup start.unlisted) :
                 start.hook[s] # "foreign"
        BY <1>1 DEF Local, Course, Found, Migrates, Guarding, Forced, WithForce
      <3>2. start.local = "legacy" /\ ~start.shadow
        BY <1>1 DEF Local, Course
      <3> QED BY <1>3, <2>1, <3>1, <3>2 DEF Migrated, Forced, WithForce
    <2>5. Shapes'
      BY <1>1, <1>3, <2>1, <2>2 DEF Shapes, TypeOK
    <2>6. Local(i)'
      BY <1>1, <1>3, <2>1, <2>2
         DEF Local, Course, Found, Judging, Writes, Reported, Good, Guarding,
             Loop
    <2> QED BY <1>1, <2>1, <2>3, <2>4, <2>5, <2>6, QuietKeeps
  <1> QED BY <1>2, <1>3 DEF Unset

\* Every step of the guard.
LEMMA GuardKeeps ==
  ASSUME IInv, NEW i \in Installers, Guard(i)
  PROVE  IInv'
  <1>1. CASE Unready(i)
    BY <1>1, GuardEnds DEF Unready, Guarding
  <1>2. CASE ReadScopes(i)
    BY <1>2, GuardEnds, GuardGoesOn DEF ReadScopes, Guarding, Shadowed
  <1>3. CASE ReadLocal(i)
    BY <1>3, GuardEnds, GuardGoesOn DEF ReadLocal, Guarding
  <1> QED BY <1>1, <1>2, <1>3, GuardSlotKeeps, UnsetKeeps DEF Guard

-----------------------------------------------------------------------------
(* The install loop, up to the write.                                       *)

\* A slot given up before anything was written.
LEMMA FailKeeps ==
  ASSUME IInv, NEW i \in Installers, slot[i] \in Slots, Fail(i),
         pc[i] \in {"classify", "repair", "read", "backup", "open"},
         declined' \in {declined, [declined EXCEPT ![i] = @ \cup {slot[i]}]},
         backup' \in BackupNames,
         \A s \in Slots, n \in Names :
           backup'[s][n] = backup[s][n] \/ backup[s][n] = "free",
         UNCHANGED <<start, hook, exec, inode, linked, local, name, bytes, fd,
                     foreigners, history, broken>>
  PROVE  IInv'
  <1>1. Shapes /\ Local(i)
    BY DEF IInv
  <1>2. /\ pc'[i] = "classify" /\ pc' \in [Installers -> Points]
        /\ slot'[i] = slot[i] + 1
        /\ slot' \in [Installers -> 1..(NumSlots + 1)]
        /\ errors' \in [Installers -> SUBSET Slots]
        /\ done' \in [Installers -> SUBSET Slots]
        /\ \A j \in Installers \ {i} :
             /\ pc'[j] = pc[j] /\ slot'[j] = slot[j]
             /\ done'[j] = done[j] /\ errors'[j] = errors[j]
        /\ errors'[i] = errors[i] \cup {slot[i]} /\ done'[i] = done[i]
    BY <1>1, Turns
  <1>3. /\ declined' \in [Installers -> SUBSET Slots]
        /\ declined'[i] \subseteq declined[i] \cup {slot[i]}
        /\ \A j \in Installers \ {i} : declined'[j] = declined[j]
    BY <1>1 DEF Shapes
  <1>4. Shared /\ Others(i)
    BY <1>2, <1>3 DEF Shared, Others, history
  <1>5. slot[i] \notin done[i]
    BY <1>1 DEF Local, Course, Loop, Shapes, Slots
  <1>6. Shapes'
    <2>1. /\ declined'[i] \subseteq errors'[i] /\ errors'[i] \subseteq Slots
          /\ done'[i] \subseteq Slots \ errors'[i]
      BY <1>1, <1>2, <1>3, <1>5 DEF Shapes, TypeOK
    <2> QED BY <1>1, <1>2, <1>3, <2>1, ShapesStay
           DEF Shapes, TypeOK, BackupNames, history
  <1>7. Local(i)'
    BY <1>1, <1>4, TurnKeeps DEF Loop
  <1>8. Migrated'
    BY <1>4, MigratedStays
  <1> QED BY <1>2, <1>4, <1>6, <1>7, <1>8, QuietKeeps

\* Going on with a slot.
LEMMA StepsOn ==
  ASSUME IInv, NEW i \in Installers, slot[i] \in Slots,
         pc[i] \in {"classify", "read", "backup"},
         NEW v \in {"repair", "read", "backup", "open"}, Goto(i, v),
         name' \in [Installers -> Names],
         bytes' \in [Installers -> Regular \cup {"none"}],
         \A j \in Installers \ {i} : bytes'[j] = bytes[j],
         backup' \in BackupNames,
         \A s \in Slots, n \in Names :
           backup'[s][n] = backup[s][n] \/ backup[s][n] = "free",
         UNCHANGED <<start, hook, exec, inode, linked, local, slot, fd,
                     foreigners, report, history, broken>>,
         v = "backup" => bytes'[i] \in Regular,
         v = "repair" => Good(slot[i]),
         InPlace(slot[i]) => /\ v = "read" => WithForce(i)
                             /\ v = "backup" => /\ WithForce(i)
                                                /\ bytes'[i] = mine[slot[i]]
                             /\ v = "open" => Saved(slot[i])'
  PROVE  IInv'
  <1>1. Shapes /\ Local(i)
    BY DEF IInv
  <1>2. /\ pc'[i] = v /\ \A j \in Installers \ {i} : pc'[j] = pc[j]
        /\ pc' \in [Installers -> Points]
    BY <1>1, Moves DEF Points
  <1>3. Shared /\ Others(i)
    BY <1>2 DEF Shared, Others, report, history
  <1>4. Shapes'
    BY <1>1, <1>2 DEF Shapes, TypeOK, BackupNames, report, history
  <1>5. Course(i)'
    BY <1>1, <1>2 DEF Local, Course, Loop, Guarding, report
  <1>6. Found(i)' /\ Writes(i)'
    BY <1>2 DEF Found, Guarding, Writes, Good, history
  <1>7. Judging(i)'
    BY <1>2 DEF Judging, InPlace, history, Saved, WithForce
  <1>8. Reported(i)'
    BY <1>1 DEF Local, Reported, Good, report, history
  <1>9. Migrated'
    BY <1>3, MigratedStays
  <1> QED BY <1>2, <1>3, <1>4, <1>5, <1>6, <1>7, <1>8, <1>9, QuietKeeps
          DEF Local, report

\* A slot is classified: kept, replaced, repaired or declined.
LEMMA ClassifyKeeps ==
  ASSUME IInv, NEW i \in Installers, Decline(i) \/ Classify(i)
  PROVE  IInv'
  <1>1. Shapes /\ Local(i) /\ pc[i] = "classify" /\ slot[i] \in Slots
    BY DEF IInv, Decline, Classify, Shapes, TypeOK, Slots
  <1>2. CASE Fail(i)
    BY <1>1, <1>2, FailKeeps
       DEF Decline, Classify, disk, Shapes, TypeOK, BackupNames
  <1>3. CASE /\ Classify(i) /\ slot[i] \notin start.unlisted
             /\ Goto(i, CASE Class(slot[i]) = "current" -> "repair"
                          [] Class(slot[i]) \in {"edited", "foreign"} -> "read"
                          [] OTHER -> "open")
             /\ UNCHANGED <<slot, done, errors>>
    <2>1. /\ UNCHANGED <<start, disk, local, name, bytes, fd, foreigners,
                         declined, history, broken>>
          /\ ~Kept(i)
      BY <1>3 DEF Classify
    <2>2. name \in [Installers -> Names]
          /\ bytes \in [Installers -> Regular \cup {"none"}]
          /\ backup \in BackupNames
      BY <1>1 DEF Shapes, TypeOK, BackupNames
    <2>3. CASE Class(slot[i]) = "current"
      <3>1. Goto(i, "repair") /\ Good(slot[i])
        BY <1>3, <2>3 DEF Class, Good
      <3> QED BY <1>1, <1>3, <2>1, <2>2, <3>1, StepsOn DEF disk, report
    <2>4. CASE Class(slot[i]) \in {"edited", "foreign"}
      <3>1. Goto(i, "read") /\ WithForce(i)
        BY <1>3, <2>1, <2>4 DEF Kept
      <3> QED BY <1>1, <1>3, <2>1, <2>2, <3>1, StepsOn DEF disk, report
    <2>5. CASE Class(slot[i]) \notin {"current", "edited", "foreign"}
      <3>1. Goto(i, "open")
        BY <1>3, <2>5
      <3>2. ~InPlace(slot[i])
        BY <1>1, <2>5 DEF Class, InPlace, Shapes, TypeOK, Users
      <3> QED BY <1>1, <1>3, <2>1, <2>2, <3>1, <3>2, StepsOn DEF disk, report
    <2> QED BY <2>3, <2>4, <2>5
  <1> QED BY <1>1, <1>2, <1>3 DEF Decline, Classify

\* The mode of a current hook is repaired.
LEMMA RepairKeeps ==
  ASSUME IInv, NEW i \in Installers, Repair(i)
  PROVE  IInv'
  <1>1. Shapes /\ Local(i) /\ pc[i] = "repair" /\ slot[i] \in Slots
    BY DEF IInv, Repair, Shapes, TypeOK, Points, Ended
  <1>2. CASE Fail(i) /\ UNCHANGED exec
    BY <1>1, <1>2, FailKeeps DEF Repair, Shapes, TypeOK, BackupNames
  <1>3. CASE exec' = [exec EXCEPT ![slot[i]] = TRUE] /\ Succeed(i)
    <2>1. UNCHANGED <<start, hook, inode, linked, backup, local, name, bytes,
                      fd, foreigners, declined, mine, touched, window, broken>>
      BY DEF Repair, history
    <2>2. /\ pc'[i] = "classify" /\ pc' \in [Installers -> Points]
          /\ slot'[i] = slot[i] + 1
          /\ slot' \in [Installers -> 1..(NumSlots + 1)]
          /\ errors' \in [Installers -> SUBSET Slots]
          /\ done' \in [Installers -> SUBSET Slots]
          /\ \A j \in Installers \ {i} :
               /\ pc'[j] = pc[j] /\ slot'[j] = slot[j]
               /\ done'[j] = done[j] /\ errors'[j] = errors[j]
          /\ done'[i] = done[i] \cup {slot[i]} /\ errors'[i] = errors[i]
      BY <1>1, <1>3, Turns
    <2>3. /\ exec' \in [Slots -> BOOLEAN] /\ exec'[slot[i]]
          /\ \A s \in Slots : exec[s] => exec'[s]
      BY <1>1, <1>3 DEF Shapes, TypeOK
    <2>4. Shared /\ Others(i)
      BY <2>1, <2>2, <2>3 DEF Shared, Others
    <2>5. slot[i] \notin errors[i]
      BY <1>1 DEF Local, Course, Loop, Shapes, Slots
    <2>6. Shapes'
      <3>1. /\ declined'[i] \subseteq errors'[i] /\ errors'[i] \subseteq Slots
            /\ done'[i] \subseteq Slots \ errors'[i]
        BY <1>1, <2>1, <2>2, <2>5 DEF Shapes, TypeOK
      <3>2. /\ backup' \in BackupNames
            /\ declined' \in [Installers -> SUBSET Slots]
            /\ broken' \subseteq Slots
        BY <1>1, <2>1 DEF Shapes, TypeOK, BackupNames
      <3>3. \A j \in Installers \ {i} : declined'[j] = declined[j]
        BY <2>1
      <3> QED BY <1>1, <2>1, <2>2, <2>3, <3>1, <3>2, <3>3, ShapesStay
    <2>7. Local(i)'
      <3>1. slot[i] \notin touched => hook'[slot[i]] \in {"current", "empty"}
        BY <1>1, <2>1 DEF Local, Writes, Good
      <3> QED BY <1>1, <1>3, <2>3, <2>4, <3>1, TurnKeeps DEF Loop
    <2>8. Migrated'
      BY <2>1, <2>4, MigratedStays
    <2> QED BY <1>1, <2>1, <2>2, <2>4, <2>6, <2>7, <2>8, QuietKeeps
  <1> QED BY <1>2, <1>3 DEF Repair

\* The bytes are read for the backup.
LEMMA BackupReadKeeps ==
  ASSUME IInv, NEW i \in Installers, BackupRead(i)
  PROVE  IInv'
  <1>1. Shapes /\ Local(i) /\ pc[i] = "read" /\ slot[i] \in Slots
    BY DEF IInv, BackupRead, Shapes, TypeOK, Points, Ended
  <1>2. CASE Fail(i) /\ UNCHANGED <<bytes, name>>
    BY <1>1, <1>2, FailKeeps DEF BackupRead, disk, Shapes, TypeOK, BackupNames
  <1>3. CASE /\ hook[slot[i]] \in Regular
             /\ bytes' = [bytes EXCEPT ![i] = hook[slot[i]]]
             /\ name' = [name EXCEPT ![i] = 1]
             /\ Goto(i, "backup") /\ UNCHANGED <<slot, done, errors>>
    <2>1. 1 \in Names
      BY HookAssumption DEF Names, HookAssumption
    <2>2. /\ bytes' \in [Installers -> Regular \cup {"none"}]
          /\ bytes'[i] = hook[slot[i]] /\ bytes'[i] \in Regular
          /\ \A j \in Installers \ {i} : bytes'[j] = bytes[j]
          /\ name' \in [Installers -> Names]
          /\ backup \in BackupNames
      BY <1>1, <1>3, <2>1 DEF Shapes, TypeOK, BackupNames
    <2>3. InPlace(slot[i]) => WithForce(i) /\ bytes'[i] = mine[slot[i]]
      BY <1>1, <2>2 DEF Local, Judging, InPlace
    <2> QED BY <1>1, <1>3, <2>2, <2>3, StepsOn DEF BackupRead, disk, report
  <1> QED BY <1>2, <1>3 DEF BackupRead

\* The name is taken: the next one.
LEMMA BackupTakenKeeps ==
  ASSUME IInv, NEW i \in Installers, BackupTaken(i)
  PROVE  IInv'
  <1>1. Shapes /\ Local(i) /\ pc[i] = "backup" /\ slot[i] \in Slots
    BY DEF IInv, BackupTaken, Shapes, TypeOK, Points, Ended
  <1>2. /\ name' \in [Installers -> Names]
        /\ UNCHANGED <<start, hook, exec, inode, linked, backup, local, pc,
                       slot, bytes, fd, foreigners, done, errors, declined,
                       mine, touched, window, broken>>
    BY <1>1, HookAssumption
       DEF BackupTaken, Shapes, TypeOK, Names, HookAssumption, disk, report,
           history
  <1>3. Shared /\ Others(i)
    BY <1>2 DEF Shared, Others
  <1>4. Shapes'
    BY <1>1, <1>2 DEF Shapes, TypeOK
  <1>5. Local(i)'
    <2>1. Course(i)' /\ Found(i)'
      BY <1>1, <1>2 DEF Local, Course, Found, Guarding
    <2>2. Judging(i)'
      BY <1>1, <1>2 DEF Local, Judging, InPlace, WithForce
    <2>3. Writes(i)' /\ Reported(i)'
      BY <1>1, <1>2 DEF Local, Writes, Reported, Good
    <2> QED BY <2>1, <2>2, <2>3 DEF Local
  <1>6. Migrated'
    BY <1>2, <1>3, MigratedStays
  <1> QED BY <1>1, <1>2, <1>3, <1>4, <1>5, <1>6, QuietKeeps DEF disk, report

\* The bytes are written under a free name.
LEMMA BackupWriteKeeps ==
  ASSUME IInv, NEW i \in Installers, BackupWrite(i)
  PROVE  IInv'
  <1>1. Shapes /\ Local(i) /\ pc[i] = "backup" /\ slot[i] \in Slots
        /\ name[i] \in Names /\ bytes[i] \in Regular
    BY DEF IInv, BackupWrite, Shapes, TypeOK, Points, Ended, Local, Course
  <1>2. PICK v \in Regular :
          /\ backup' = [backup EXCEPT ![slot[i]][name[i]] = v]
          /\ \/ /\ v = bytes[i] /\ Goto(i, "open")
                /\ UNCHANGED <<slot, done, errors>>
             \/ Fail(i)
    BY <1>1 DEF BackupWrite, Regular
  <1>3. backup[slot[i]][name[i]] = "free"
    BY <1>1 DEF BackupWrite, Taken, Under, Shapes, TypeOK
  <1>4. /\ backup' \in BackupNames
        /\ \A s \in Slots, n \in Names :
             backup'[s][n] = backup[s][n] \/ backup[s][n] = "free"
        /\ backup'[slot[i]][name[i]] = v
    BY <1>1, <1>2, <1>3 DEF Shapes, TypeOK, BackupNames
  <1>5. CASE Fail(i)
    BY <1>1, <1>4, <1>5, FailKeeps DEF BackupWrite
  <1>6. CASE v = bytes[i] /\ Goto(i, "open") /\ UNCHANGED <<slot, done, errors>>
    <2>1. ASSUME InPlace(slot[i]) PROVE Saved(slot[i])'
      <3>1. WithForce(i) /\ bytes[i] = mine[slot[i]] /\ i \in start.active
        BY <1>1, <2>1 DEF Local, Judging, Course
      <3>2. UNCHANGED <<start, mine>>
        BY DEF BackupWrite, history
      <3> QED BY <1>1, <1>4, <1>6, <3>1, <3>2 DEF Saved, Forced, WithForce
    <2>2. name \in [Installers -> Names]
          /\ bytes \in [Installers -> Regular \cup {"none"}]
      BY <1>1 DEF Shapes, TypeOK
    <2>3. UNCHANGED <<start, hook, exec, inode, linked, local, slot, name,
                      bytes, fd, foreigners, report, history, broken>>
      BY <1>6 DEF BackupWrite, report
    <2> QED BY <1>1, <1>4, <1>6, <2>1, <2>2, <2>3, StepsOn
  <1> QED BY <1>2, <1>5, <1>6

\* The backup or the hook cannot be written.
LEMMA GivesUpKeeps ==
  ASSUME IInv, NEW i \in Installers, BackupFails(i) \/ WriteRefused(i)
  PROVE  IInv'
  <1>1. Shapes /\ pc[i] \in {"backup", "open"} /\ slot[i] \in Slots
    BY DEF IInv, BackupFails, WriteRefused, Shapes, TypeOK, Points, Ended
  <1> QED BY <1>1, FailKeeps
          DEF BackupFails, WriteRefused, disk, Shapes, TypeOK, BackupNames

\* The call returns.
LEMMA ReturnKeeps ==
  ASSUME IInv, NEW i \in Installers, Return(i)
  PROVE  IInv'
  <1>1. Shapes /\ Local(i) /\ pc[i] = "classify"
        /\ UNCHANGED <<start, disk, local, work, report, history, broken>>
    BY DEF IInv, Return
  <1>2. /\ pc'[i] = "returned" /\ \A j \in Installers \ {i} : pc'[j] = pc[j]
        /\ pc' \in [Installers -> Points]
    BY <1>1, Moves DEF Points, Ended, Return
  <1>3. Shared /\ Others(i)
    BY <1>1, <1>2 DEF Shared, Others, disk, work, report, history
  <1>4. Shapes'
    BY <1>1, <1>2 DEF Shapes, TypeOK, disk, work, report, history, Ended
  <1>5. Local(i)'
    BY <1>1, <1>2
       DEF Local, Course, Found, Judging, Writes, Reported, Good, Guarding,
           Loop, disk, work, report, history
  <1>6. Migrated'
    BY <1>1, <1>3, MigratedStays
  <1> QED BY <1>1, <1>2, <1>3, <1>4, <1>5, <1>6, QuietKeeps DEF disk, report

-----------------------------------------------------------------------------
(* The write.                                                               *)

\* What remains to show of a step that changes the hook it writes.
LEMMA WritingKeeps ==
  ASSUME IInv, Shared, NEW i \in Installers, Others(i), broken' = broken,
         pc[i] \in {"open", "truncate", "fill"}, errors' = errors,
         \A s \in Slots : hook'[s] # hook[s] /\ InPlace(s) => Saved(s),
         \A s \in Slots : hook'[s] = "empty" =>
           \/ s \in broken
           \/ \E j \in Installers : /\ pc'[j] \in {"truncate", "fill"}
                                    /\ slot'[j] = s /\ fd'[j] = inode[s],
         local' = local, Shapes', Local(i)'
  PROVE  IInv'
  <1>1. \A j \in Installers \ {i} : Local(j)'
    BY OthersStay DEF IInv
  <1>2. Preserved' /\ Migrated'
    BY PreservedStays, MigratedStays
  <1>3. Torn'
    <2>1. ASSUME NEW s \in broken
          PROVE  \E j \in Installers : pc'[j] = "crashed" \/ s \in errors'[j]
      BY <2>1 DEF IInv, Torn, Others
    <2> QED BY <2>1 DEF Torn, Shared
  <1> QED BY <1>1, <1>2, <1>3 DEF IInv

\* The slot is opened, or created with O_EXCL.
LEMMA WriteOpenKeeps ==
  ASSUME IInv, NEW i \in Installers, WriteOpen(i)
  PROVE  IInv'
  <1> DEFINE s == slot[i]
  <1>1. Shapes /\ Local(i) /\ pc[i] = "open" /\ s \in Slots
        /\ hook[s] \in Regular \cup {"absent"}
    BY DEF IInv, WriteOpen, Shapes, TypeOK, Points, Ended
  <1>2. UNCHANGED <<start, inode, linked, backup, local, slot, name, bytes,
                    foreigners, done, errors, declined, mine, touched, window,
                    broken>>
    BY DEF WriteOpen, report, history
  <1>3. /\ pc'[i] = "truncate" /\ \A j \in Installers \ {i} : pc'[j] = pc[j]
        /\ pc' \in [Installers -> Points]
    BY <1>1, Moves DEF Points, WriteOpen
  <1>4. /\ fd'[i] = inode[s] /\ \A j \in Installers \ {i} : fd'[j] = fd[j]
        /\ fd' \in [Installers -> 0..1]
    BY <1>1 DEF WriteOpen, Shapes, TypeOK
  <1>5. /\ hook' \in [Slots -> Kinds] /\ exec' \in [Slots -> BOOLEAN]
        /\ hook'[s] = (IF hook[s] = "absent" THEN "empty" ELSE hook[s])
        /\ \A r \in Slots \ {s} : hook'[r] = hook[r]
        /\ \A r \in Slots : exec[r] => exec'[r]
    <2>1. hook \in [Slots -> Kinds] /\ exec \in [Slots -> BOOLEAN]
      BY <1>1 DEF Shapes, TypeOK
    <2>2. CASE hook[s] = "absent"
      <3>1. /\ hook' = [hook EXCEPT ![s] = "empty"]
            /\ exec' = [exec EXCEPT ![s] = TRUE]
        BY <2>2 DEF WriteOpen
      <3>2. "empty" \in Kinds
        BY DEF Kinds, Regular
      <3> QED BY <1>1, <2>1, <2>2, <3>1, <3>2
    <2>3. CASE hook[s] # "absent"
      <3>1. hook' = hook /\ exec' = exec
        BY <2>3 DEF WriteOpen
      <3> QED BY <2>1, <2>3, <3>1
    <2> QED BY <2>2, <2>3
  <1> HIDE DEF s
  <1>6. Shared /\ Others(i)
    BY <1>2, <1>3, <1>4, <1>5 DEF Shared, Others, Good
  <1>7. \A r \in Slots : hook'[r] # hook[r] /\ InPlace(r) => Saved(r)
    BY <1>1, <1>5 DEF InPlace, Shapes, TypeOK, Users
  <1>8. Shapes'
    BY <1>1, <1>2, <1>3, <1>4, <1>5 DEF Shapes, TypeOK, s
  <1>9. Local(i)'
    <2>1. Course(i)' /\ Found(i)'
      BY <1>1, <1>2, <1>3 DEF Local, Course, Found, Loop, Guarding
    <2>2. Judging(i)'
      <3>1. ASSUME NEW r \in Slots, InPlace(r)' PROVE InPlace(r)
        BY <1>6, <3>1 DEF Shared, InPlace, Good, Shapes, TypeOK, Users, IInv
      <3>2. ASSUME NEW r \in Slots, InPlace(r), Saved(r) PROVE Saved(r)'
        BY <1>1, <1>6, <3>2, SavedStays DEF InPlace
      <3>3. slot'[i] = slot[i] /\ slot[i] \in Slots
        BY <1>1, <1>2 DEF s
      <3> QED BY <1>1, <1>3, <3>1, <3>2, <3>3 DEF Local, Judging
    <2>3. Writes(i)'
      BY <1>1, <1>2, <1>3, <1>4, <1>5 DEF Writes, s, Regular
    <2>4. Reported(i)'
      BY <1>1, <1>2, <1>5 DEF Local, Reported, Good, Shapes
    <2> QED BY <2>1, <2>2, <2>3, <2>4 DEF Local
  <1>10. ASSUME NEW r \in Slots, hook'[r] = "empty"
         PROVE  \/ r \in broken
                \/ \E j \in Installers : /\ pc'[j] \in {"truncate", "fill"}
                                         /\ slot'[j] = r /\ fd'[j] = inode[r]
    <2>1. CASE r = s
      BY <1>2, <1>3, <1>4, <2>1 DEF s
    <2>2. CASE r # s
      <3>1. hook[r] = "empty"
        BY <1>5, <1>10, <2>2
      <3>2. CASE r \in broken
        BY <3>2
      <3>3. CASE \E j \in Installers : /\ pc[j] \in {"truncate", "fill"}
                                       /\ slot[j] = r /\ fd[j] = inode[r]
        <4>1. PICK j \in Installers : /\ pc[j] \in {"truncate", "fill"}
                                      /\ slot[j] = r /\ fd[j] = inode[r]
          BY <3>3
        <4> QED BY <1>1, <1>2, <1>3, <1>4, <4>1
      <3> QED BY <3>1, <3>2, <3>3 DEF IInv, Torn
    <2> QED BY <2>1, <2>2
  <1> QED BY <1>1, <1>2, <1>6, <1>7, <1>8, <1>9, <1>10, WritingKeeps

\* Truncating and filling: only while the file that was opened is there.
LEMMA WriteBytesKeeps ==
  ASSUME IInv, NEW i \in Installers,
         NEW b \in {"empty", "current"}, NEW v \in {"fill", "chmod"},
         \/ pc[i] = "truncate" /\ v = "fill" /\ b = "empty"
         \/ pc[i] = "fill" /\ v = "chmod" /\ b = "current",
         hook' = IF StillThere(i) THEN [hook EXCEPT ![slot[i]] = b] ELSE hook,
         Goto(i, v),
         UNCHANGED <<start, exec, inode, linked, backup, local, work, report,
                     history, broken>>
  PROVE  IInv'
  <1> DEFINE s == slot[i]
  <1>1. Shapes /\ Local(i) /\ pc[i] \in {"truncate", "fill"} /\ s \in Slots
    BY DEF IInv, Shapes, TypeOK, Points, Ended
  <1>2. UNCHANGED <<start, exec, inode, linked, backup, local, slot, name,
                    bytes, fd, foreigners, done, errors, declined, mine,
                    touched,
                    window, broken>>
    BY DEF work, report, history
  <1>3. /\ pc'[i] = v /\ \A j \in Installers \ {i} : pc'[j] = pc[j]
        /\ pc' \in [Installers -> Points]
    BY <1>1, Moves DEF Points
  <1>4. /\ hook' \in [Slots -> Kinds]
        /\ hook'[s] = (IF StillThere(i) THEN b ELSE hook[s])
        /\ \A r \in Slots \ {s} : hook'[r] = hook[r]
    BY <1>1 DEF Shapes, TypeOK, Kinds, Regular
  <1>5. s \notin touched => StillThere(i)
    BY <1>1 DEF Local, Writes, StillThere
  <1> HIDE DEF s
  <1>6. Shared /\ Others(i)
    BY <1>2, <1>3, <1>4 DEF Shared, Others, Good
  <1>7. InPlace(s) => Saved(s)
    BY <1>1 DEF Local, Judging, s
  <1>8. \A r \in Slots : hook'[r] # hook[r] /\ InPlace(r) => Saved(r)
    BY <1>4, <1>7
  <1>9. Shapes'
    BY <1>1, <1>2, <1>3, <1>4 DEF Shapes, TypeOK, s
  <1>10. Local(i)'
    <2>1. Course(i)' /\ Found(i)'
      BY <1>1, <1>2, <1>3 DEF Local, Course, Found, Loop, Guarding
    <2>2. Judging(i)'
      <3>1. ASSUME NEW r \in Slots, InPlace(r)' PROVE InPlace(r)
        <4>1. mine[r] \in {"edited", "foreign", "late", "none"}
          BY <1>1 DEF Shapes, TypeOK, Users
        <4>2. mine' = mine /\ window' = window
              /\ (hook'[r] = hook[r] \/ hook'[r] \in {"current", "empty"})
          BY <1>6 DEF Shared, Good
        <4> QED BY <3>1, <4>1, <4>2 DEF InPlace
      <3>2. ASSUME NEW r \in Slots, InPlace(r), Saved(r) PROVE Saved(r)'
        BY <1>1, <1>6, <3>2, SavedStays DEF InPlace
      <3>3. slot'[i] = slot[i] /\ slot[i] \in Slots
        BY <1>1, <1>2 DEF s
      <3>4. InPlace(slot[i])' => Saved(slot[i])'
        BY <1>7, <3>1, <3>2, <3>3 DEF s
      <3> QED BY <1>3, <3>4 DEF Judging
    <2>3. Writes(i)'
      <3>1. s \notin touched =>
              fd[i] = inode[s] /\ hook[s] \in Regular /\ hook'[s] = b
        BY <1>4, <1>5 DEF StillThere, s
      <3> QED BY <1>2, <1>3, <3>1 DEF Writes, s, Regular, Good
    <2>4. Reported(i)'
      BY <1>1, <1>2, <1>4 DEF Local, Reported, Good, Shapes
    <2> QED BY <2>1, <2>2, <2>3, <2>4 DEF Local
  <1>11. ASSUME NEW r \in Slots, hook'[r] = "empty"
         PROVE  \/ r \in broken
                \/ \E j \in Installers : /\ pc'[j] \in {"truncate", "fill"}
                                         /\ slot'[j] = r /\ fd'[j] = inode[r]
    <2>1. CASE r = s /\ StillThere(i)
      <3>1. v = "fill" /\ fd[i] = inode[r]
        BY <1>4, <1>11, <2>1 DEF StillThere, s
      <3> QED BY <1>2, <1>3, <2>1, <3>1 DEF s
    <2>2. CASE r # s \/ ~StillThere(i)
      <3>1. hook[r] = "empty" /\ (r = s => inode[s] # fd[i])
        BY <1>4, <1>11, <2>2 DEF StillThere, s, Regular
      <3>2. CASE r \in broken
        BY <3>2
      <3>3. CASE \E j \in Installers : /\ pc[j] \in {"truncate", "fill"}
                                       /\ slot[j] = r /\ fd[j] = inode[r]
        <4>1. PICK j \in Installers : /\ pc[j] \in {"truncate", "fill"}
                                      /\ slot[j] = r /\ fd[j] = inode[r]
          BY <3>3
        <4>2. j # i
          BY <3>1, <4>1 DEF s
        <4> QED BY <1>2, <1>3, <4>1, <4>2
      <3> QED BY <3>1, <3>2, <3>3 DEF IInv, Torn
    <2> QED BY <2>1, <2>2
  <1> QED BY <1>1, <1>2, <1>6, <1>8, <1>9, <1>10, <1>11, WritingKeeps

\* The mode of the written hook is set.
LEMMA WriteModeKeeps ==
  ASSUME IInv, NEW i \in Installers, WriteMode(i)
  PROVE  IInv'
  <1>1. Shapes /\ Local(i) /\ pc[i] = "chmod" /\ slot[i] \in Slots
    BY DEF IInv, WriteMode, Shapes, TypeOK, Points, Ended
  <1>2. UNCHANGED <<start, hook, inode, linked, backup, local, name, bytes,
                    fd, foreigners, declined, mine, touched, window, broken>>
    BY DEF WriteMode, history
  <1>3. /\ pc'[i] = "classify" /\ pc' \in [Installers -> Points]
        /\ slot'[i] = slot[i] + 1
        /\ slot' \in [Installers -> 1..(NumSlots + 1)]
        /\ errors' \in [Installers -> SUBSET Slots]
        /\ done' \in [Installers -> SUBSET Slots]
        /\ \A j \in Installers \ {i} :
             /\ pc'[j] = pc[j] /\ slot'[j] = slot[j]
             /\ done'[j] = done[j] /\ errors'[j] = errors[j]
        /\ done'[i] = done[i] \cup {slot[i]} /\ errors'[i] = errors[i]
    BY <1>1, Turns DEF WriteMode
  <1>4. /\ exec' \in [Slots -> BOOLEAN]
        /\ slot[i] \notin touched => exec'[slot[i]]
        /\ \A s \in Slots : exec[s] => exec'[s]
    BY <1>1 DEF WriteMode, ModeSet, StillThere, Local, Writes, Shapes, TypeOK
  <1>5. Shared /\ Others(i)
    BY <1>2, <1>3, <1>4 DEF Shared, Others
  <1>6. Shapes'
    <2>1. slot[i] \notin errors[i]
      BY <1>1 DEF Local, Course, Loop, Shapes, Slots
    <2>2. /\ declined'[i] \subseteq errors'[i] /\ errors'[i] \subseteq Slots
          /\ done'[i] \subseteq Slots \ errors'[i]
      BY <1>1, <1>2, <1>3, <2>1 DEF Shapes, TypeOK
    <2>3. /\ backup' \in BackupNames
          /\ declined' \in [Installers -> SUBSET Slots]
          /\ broken' \subseteq Slots
      BY <1>1, <1>2 DEF Shapes, TypeOK, BackupNames
    <2>4. \A j \in Installers \ {i} : declined'[j] = declined[j]
      BY <1>2
    <2> QED BY <1>1, <1>2, <1>3, <1>4, <2>2, <2>3, <2>4, ShapesStay
  <1>7. Local(i)'
    <2>1. slot[i] \notin touched => hook'[slot[i]] \in {"current", "empty"}
      BY <1>1, <1>2 DEF Local, Writes, Good
    <2>2. Succeed(i)
      BY DEF WriteMode
    <2> QED BY <1>1, <1>4, <1>5, <2>1, <2>2, TurnKeeps DEF Loop
  <1>8. Migrated'
    BY <1>2, <1>5, MigratedStays
  <1> QED BY <1>1, <1>2, <1>3, <1>5, <1>6, <1>7, <1>8, QuietKeeps

\* A write cut short, by an error or by death, is known to be broken.
LEMMA BreaksKeep ==
  ASSUME IInv, Shared, NEW i \in Installers, Others(i), hook' = hook,
         local' = local, broken \subseteq broken',
         pc[i] \in {"truncate", "fill"} => slot[i] \in broken',
         pc[i] # "crashed", errors[i] \subseteq errors'[i],
         \A s \in broken' \ broken : pc'[i] = "crashed" \/ s \in errors'[i],
         Shapes', Local(i)'
  PROVE  IInv'
  <1>1. \A j \in Installers \ {i} : Local(j)'
    BY OthersStay DEF IInv
  <1>2. Preserved' /\ Migrated'
    BY PreservedStays, MigratedStays
  <1>3. Torn'
    <2>1. ASSUME NEW s \in Slots, hook[s] = "empty", s \notin broken'
          PROVE  \E j \in Installers : /\ pc'[j] \in {"truncate", "fill"}
                                       /\ slot'[j] = s /\ fd'[j] = inode[s]
      <3>1. PICK j \in Installers : /\ pc[j] \in {"truncate", "fill"}
                                    /\ slot[j] = s /\ fd[j] = inode[s]
        BY <2>1 DEF IInv, Torn
      <3> QED BY <2>1, <3>1 DEF Others
    <2>2. ASSUME NEW s \in broken'
          PROVE  \E j \in Installers : pc'[j] = "crashed" \/ s \in errors'[j]
      BY <2>2 DEF IInv, Torn, Others
    <2> QED BY <2>1, <2>2 DEF Torn, Shared
  <1> QED BY <1>1, <1>2, <1>3 DEF IInv

\* A write or its mode fails.
LEMMA WriteFailsKeeps ==
  ASSUME IInv, NEW i \in Installers, WriteFails(i)
  PROVE  IInv'
  <1>1. Shapes /\ Local(i) /\ pc[i] \in {"truncate", "fill", "chmod"}
        /\ slot[i] \in Slots
    BY DEF IInv, WriteFails, Shapes, TypeOK, Points, Ended
  <1>2. /\ UNCHANGED <<start, hook, exec, inode, linked, backup, local, name,
                       bytes, fd, foreigners, declined, mine, touched, window>>
        /\ broken' = broken \cup {slot[i]} /\ Fail(i)
    BY DEF WriteFails, disk, history
  <1>3. /\ pc'[i] = "classify" /\ pc' \in [Installers -> Points]
        /\ slot'[i] = slot[i] + 1
        /\ slot' \in [Installers -> 1..(NumSlots + 1)]
        /\ errors' \in [Installers -> SUBSET Slots]
        /\ done' \in [Installers -> SUBSET Slots]
        /\ \A j \in Installers \ {i} :
             /\ pc'[j] = pc[j] /\ slot'[j] = slot[j]
             /\ done'[j] = done[j] /\ errors'[j] = errors[j]
        /\ errors'[i] = errors[i] \cup {slot[i]} /\ done'[i] = done[i]
    BY <1>1, <1>2, Turns
  <1>4. Shared /\ Others(i)
    BY <1>2, <1>3 DEF Shared, Others
  <1>5. Shapes'
    <2>1. slot[i] \notin done[i]
      BY <1>1 DEF Local, Course, Loop, Shapes, Slots
    <2>2. /\ declined'[i] \subseteq errors'[i] /\ errors'[i] \subseteq Slots
          /\ done'[i] \subseteq Slots \ errors'[i]
      BY <1>1, <1>2, <1>3, <2>1 DEF Shapes, TypeOK
    <2>3. /\ backup' \in BackupNames
          /\ exec' \in [Slots -> BOOLEAN]
          /\ declined' \in [Installers -> SUBSET Slots]
          /\ broken' \subseteq Slots
      BY <1>1, <1>2 DEF Shapes, TypeOK, BackupNames
    <2>4. \A j \in Installers \ {i} : declined'[j] = declined[j]
      BY <1>2
    <2> QED BY <1>1, <1>2, <1>3, <2>2, <2>3, <2>4, ShapesStay
  <1>6. Local(i)'
    BY <1>1, <1>2, <1>4, TurnKeeps DEF Loop
  <1> QED BY <1>1, <1>2, <1>3, <1>4, <1>5, <1>6, BreaksKeep

\* An installer dies.
LEMMA CrashKeeps ==
  ASSUME IInv, NEW i \in Installers, Crash(i)
  PROVE  IInv'
  <1>1. Shapes /\ Local(i) /\ pc[i] \notin Ended
    BY DEF IInv, Crash
  <1>2. UNCHANGED <<start, hook, exec, inode, linked, backup, local, slot, name,
                    bytes, fd, foreigners, done, errors, declined, mine,
                    touched, window>>
    BY DEF Crash, disk, work, report, history
  <1>3. /\ pc'[i] = "crashed" /\ \A j \in Installers \ {i} : pc'[j] = pc[j]
        /\ pc' \in [Installers -> Points]
    BY <1>1, Moves DEF Crash, Points, Ended
  <1>4. Shared /\ Others(i)
    BY <1>2, <1>3 DEF Shared, Others
  <1>5. /\ broken \subseteq broken' /\ broken' \subseteq Slots
        /\ pc[i] \in {"truncate", "fill"} => slot[i] \in broken'
    BY <1>1 DEF Crash, Writing, Shapes, TypeOK, Points, Ended
  <1>6. Shapes'
    BY <1>1, <1>2, <1>3, <1>5 DEF Shapes, TypeOK, Ended
  <1>7. Local(i)'
    <2>1. Course(i)'
      BY <1>1, <1>2, <1>3 DEF Local, Course, Ended, Guarding, Loop
    <2>2. Reported(i)'
      BY <1>1, <1>2 DEF Local, Reported, Good
    <2> QED BY <1>3, <2>1, <2>2 DEF Local, Found, Judging, Writes, Guarding
  <1>8. pc[i] # "crashed"
    BY <1>1 DEF Ended
  <1> QED BY <1>2, <1>3, <1>4, <1>5, <1>6, <1>7, <1>8, BreaksKeep

-----------------------------------------------------------------------------
(* The user.                                                                *)

\* A user replaces or rewrites a slot.
LEMMA EditKeeps ==
  ASSUME IInv, NEW s \in Slots, Edit(s)
  PROVE  IInv'
  <1>1. Shapes /\ Preserved /\ s \notin touched /\ inode[s] = 0
    BY DEF IInv, Edit, Preserved
  <1>2. UNCHANGED <<start, exec, backup, local, pc, slot, name, bytes, fd,
                    foreigners, done, errors, declined, broken>>
    BY DEF Edit, work, report
  <1>3. /\ hook' \in [Slots -> Kinds] /\ hook'[s] = "late"
        /\ mine' \in [Slots -> Users \cup {"none"}] /\ mine'[s] = "late"
        /\ inode' \in [Slots -> 0..1] /\ linked' \subseteq Slots
        /\ \A r \in Slots \ {s} : /\ hook'[r] = hook[r] /\ mine'[r] = mine[r]
                                  /\ inode'[r] = inode[r]
    <2>1. /\ hook' \in [Slots -> Kinds] /\ hook'[s] = "late"
          /\ mine' \in [Slots -> Users \cup {"none"}] /\ mine'[s] = "late"
          /\ \A r \in Slots \ {s} : hook'[r] = hook[r] /\ mine'[r] = mine[r]
      BY <1>1 DEF Edit, Shapes, TypeOK, Kinds, Regular, Users
    <2>2. /\ inode' \in [Slots -> 0..1] /\ linked' \subseteq Slots
          /\ \A r \in Slots \ {s} : inode'[r] = inode[r]
      <3>1. inode \in [Slots -> 0..1] /\ linked \subseteq Slots
        BY <1>1 DEF Shapes, TypeOK
      <3>2. \/ UNCHANGED <<inode, linked>>
            \/ /\ inode' = [inode EXCEPT ![s] = inode[s] + 1]
               /\ linked' = linked \ {s}
        BY DEF Edit
      <3>3. inode[s] = 0
        BY <1>1
      <3> QED BY <3>1, <3>2, <3>3
    <2> QED BY <2>1, <2>2
  <1>4. /\ touched' = touched \cup {s} /\ window \subseteq window'
        /\ window' \subseteq window \cup {s}
        /\ Judged(s) => s \in window'
    BY DEF Edit
  <1>5. Shapes'
    BY <1>1, <1>2, <1>3, <1>4 DEF Shapes, TypeOK
  <1>6. ASSUME NEW j \in Installers PROVE Local(j)'
    <2>1. Local(j)
      BY DEF IInv
    <2>2. Course(j)' /\ Found(j)'
      BY <1>2, <1>4, <2>1
         DEF Local, Course, Found, Migrates, WithForce, Forced
    <2>3. Judging(j)'
      <3>1. pc[j] \in {"read", "backup", "open", "truncate", "fill"} =>
              slot[j] \in Slots /\ (slot[j] = s => Judged(s))
        BY <1>1 DEF Shapes, TypeOK, Points, Ended, Judged
      <3>2. ASSUME NEW r \in Slots \ {s}
            PROVE  /\ InPlace(r)' => InPlace(r) /\ mine'[r] = mine[r]
                   /\ Saved(r) => Saved(r)'
        BY <1>2, <1>3, <1>4 DEF InPlace, Saved, Forced, WithForce
      <3>3. CASE slot[j] = s
        BY <1>2, <1>4, <3>1, <3>3 DEF Judging, InPlace
      <3>4. CASE slot[j] # s
        BY <1>2, <2>1, <3>1, <3>2, <3>4 DEF Local, Judging, WithForce
      <3> QED BY <3>3, <3>4
    <2>4. Writes(j)'
      <3>1. pc[j] \in {"repair", "truncate", "fill", "chmod"} =>
              slot[j] \in Slots
        BY <1>1 DEF Shapes, TypeOK, Points, Ended
      <3> QED BY <1>2, <1>3, <1>4, <2>1, <3>1 DEF Local, Writes, Good
    <2>5. Reported(j)'
      BY <1>1, <1>2, <1>3, <1>4, <2>1 DEF Local, Reported, Good, Shapes
    <2> QED BY <2>2, <2>3, <2>4, <2>5 DEF Local
  <1>7. Preserved'
    <2>1. ASSUME NEW r \in Slots, mine'[r] # "none", r \notin window'
          PROVE  hook'[r] = mine'[r] \/ Saved(r)'
      BY <1>1, <1>2, <1>3, <1>4, <2>1
         DEF Preserved, Saved, Forced, WithForce
    <2>2. \A r \in Slots \ touched' :
            inode'[r] = 0 /\ (start.hook[r] = "foreign" => mine'[r] = "foreign")
      BY <1>1, <1>3, <1>4 DEF Preserved
    <2> QED BY <1>1, <1>2, <2>1, <2>2 DEF Preserved
  <1>8. Torn'
    <2>1. ASSUME NEW r \in Slots, hook'[r] = "empty"
          PROVE  \/ r \in broken
                 \/ \E j \in Installers : /\ pc[j] \in {"truncate", "fill"}
                                          /\ slot[j] = r /\ fd[j] = inode'[r]
      BY <1>3, <2>1 DEF IInv, Torn
    <2> QED BY <1>2, <2>1 DEF IInv, Torn
  <1>9. Migrated'
    BY <1>2, <1>4 DEF IInv, Migrated, Forced, WithForce
  <1> QED BY <1>5, <1>6, <1>7, <1>8, <1>9 DEF IInv

\* Every step keeps the inductive invariant.
LEMMA StepKeeps == IInv /\ [Next]_vars => IInv'
  <1> SUFFICES ASSUME IInv, [Next]_vars PROVE IInv'
    OBVIOUS
  <1>1. CASE UNCHANGED vars
    <2>1. UNCHANGED <<start, hook, exec, inode, linked, backup, local, pc, slot,
                      name, bytes, fd, foreigners, done, errors, declined, mine,
                      touched, window, broken>>
      BY <1>1 DEF vars, disk, work, report, history
    <2>2. Shapes' /\ Preserved' /\ Torn' /\ Migrated'
      <3>1. Shapes'
        BY <2>1 DEF IInv, Shapes, TypeOK
      <3>2. Preserved'
        BY <2>1 DEF IInv, Preserved, Saved, Forced, WithForce
      <3>3. Torn'
        BY <2>1 DEF IInv, Torn
      <3>4. Migrated'
        BY <2>1 DEF IInv, Migrated, Forced, WithForce
      <3> QED BY <3>1, <3>2, <3>3, <3>4
    <2>3. ASSUME NEW j \in Installers PROVE Local(j)'
      <3>1. Local(j)
        BY DEF IInv
      <3>2. Course(j)' /\ Found(j)'
        BY <2>1, <3>1 DEF Local, Course, Found, Forced, Migrates, WithForce
      <3>3. Judging(j)'
        BY <2>1, <3>1 DEF Local, Judging, InPlace, Saved, Forced, WithForce
      <3>4. Writes(j)' /\ Reported(j)'
        BY <2>1, <3>1 DEF Local, Writes, Reported, Good
      <3> QED BY <3>2, <3>3, <3>4 DEF Local
    <2> QED BY <2>2, <2>3 DEF IInv
  <1>2. ASSUME NEW i \in Installers, Install(i) PROVE IInv'
    <2>1. CASE WriteTruncate(i) \/ WriteFill(i)
      BY <2>1, WriteBytesKeeps DEF WriteTruncate, WriteFill
    <2> QED BY <1>2, <2>1, ClassifyKeeps, RepairKeeps, ReturnKeeps,
               BackupReadKeeps, BackupTakenKeeps, GivesUpKeeps,
               BackupWriteKeeps, WriteOpenKeeps, WriteModeKeeps,
               WriteFailsKeeps
            DEF Install
  <1> QED BY <1>1, <1>2, GuardKeeps, CrashKeeps, EditKeeps DEF Next

\* The invariant of the specification.
LEMMA Inductive == Spec => []IInv
  BY Starts, StepKeeps, PTL DEF Spec

-----------------------------------------------------------------------------
(* The theorems.                                                            *)

\* Slots, backups and the books of each installer keep their shape: no slot is
\* both done and in error, and a declined one is an error (ci.ts:3113-3161).
THEOREM HooksKeepShape == Spec => []TypeOK
  <1>1. IInv => TypeOK
    BY DEF IInv, Shapes
  <1> QED BY <1>1, Inductive, PTL

\* What a user wrote before a call classified the slot is there or in a complete
\* backup, and only with force is it moved; no backup is written over
\* (ci.ts:2548-2569).
THEOREM UserBytesAreKept == Spec => []UserBytesSurvive
  <1>1. IInv => UserBytesSurvive
    BY DEF IInv, Preserved, Saved, Forced, UserBytesSurvive
  <1> QED BY <1>1, Inductive, PTL

\* core.hooksPath is only given up where git would then look at hooks nobody
\* else put there, or with force (ci.ts:2926-3033).
THEOREM MigrationIsWhole == Spec => []NeverHalfMigrated
  <1>1. IInv => NeverHalfMigrated
    BY DEF IInv, Migrated, Forced, NeverHalfMigrated
  <1> QED BY <1>1, Inductive, PTL

\* A slot reported as done holds the hook of the release and runs; an emptied
\* hook is being written or reported (ci.ts:2894-2934, 3098-3150).
THEOREM ReportsAreTrue == Spec => []HooksRunOrSaySo
  <1>1. IInv => TornIsReported
    BY DEF IInv, Torn, Writing, TornIsReported
  <1>2. ASSUME IInv, NEW i \in Installers, pc[i] = "returned",
               NEW s \in done[i] \ (touched \cup broken),
               \A j \in Installers : ~Writing(j, s)
        PROVE  /\ hook[s] = "current" /\ exec[s] /\ local = "unset"
               /\ ~start.shadow
    <2>1. Good(s) /\ exec[s] /\ local = "unset" /\ ~start.shadow
      BY <1>2 DEF IInv, Local, Course, Reported
    <2>2. s \in Slots
      BY <1>2 DEF IInv, Shapes
    <2>3. hook[s] # "empty"
      BY <1>2, <2>2 DEF IInv, Torn, Writing
    <2> QED BY <2>1, <2>3 DEF Good
  <1>3. IInv => HooksRunOrSaySo
    BY <1>1, <1>2 DEF IInv, Shapes, HooksRunOrSaySo, InstalledHooksRun
  <1> QED BY <1>3, Inductive, PTL
=============================================================================
