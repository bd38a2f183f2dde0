--------------------------- MODULE InstallsProofs ---------------------------
(***************************************************************************)
(* Proofs about the installers that share files with the user.  Of         *)
(* AgentHooks: what users wrote stays in the file or in a backup, a run    *)
(* that answers ok leaves nothing to do, and a doctor that exits 0 is      *)
(* right.  Of AiProviders: no model is routed that was never proven to     *)
(* answer, and the user's notes stay.  All for any registrations, policies *)
(* and numbers of runs, of models and of targets' notes.                   *)
(***************************************************************************)
EXTENDS AgentHooks, AiProviders, FiniteSetTheorems, TLAPS

-----------------------------------------------------------------------------
(* The hooks of the agents.                                                  *)

Pair == {Reg, Second}
Window == {"read", "stage", "commit"}

\* Whose turn it is to be committed first.
First == IF agent = "claude" THEN Second ELSE Reg

Shapes ==
  /\ agent \in Agents /\ around \in Surroundings
  /\ DOMAIN file = Pair /\ DOMAIN seen = Pair /\ DOMAIN prior = Pair
  /\ DOMAIN kept = Pair /\ DOMAIN owed = Pair
  /\ \A c \in Pair : /\ Shaped(agent, c, file[c])
                     /\ Shaped(agent, c, seen[c])
                     /\ Shaped(agent, c, prior[c])
                     /\ owed[c] \subseteq Items \cup {UserItem}
                     /\ kept[c] \subseteq Items \cup {UserItem}

\* How far the run is.
RunPhase ==
  /\ phase \in {"idle"} \cup Window /\ answer \in {"none", "ok", "failed"}
  /\ unread \subseteq Pair /\ committed \subseteq Pair /\ forced \in BOOLEAN
  /\ phase \in Window => answer = "none"
  /\ phase \in {"read", "stage"} => committed = {}
  /\ phase \in {"stage", "commit"} =>
       unread = {} /\ plan = Plans(seen, forced) /\ ~Refused(plan)
         /\ plan # Nothing
  /\ phase = "commit" =>
       /\ committed \subseteq Writes
       /\ committed \subseteq {First} \/ committed = Writes

\* What is owed stays owed to what a run read, planned or captured.
Held ==
  /\ OthersKept
  /\ phase \in Window => \A c \in Pair \ unread :
       owed[c] \ Excepted(c) \subseteq Content(seen[c]) \cup kept[c]
  /\ phase = "commit" =>
       /\ \A c \in Writes :
            owed[c] \ Excepted(c) \subseteq Content(plan[c]) \cup kept[c]
       /\ \A c \in Pair :
            owed[c] \ Excepted(c) \subseteq Content(prior[c]) \cup kept[c]

\* The same, but for the approvals of Codex, which no manager writes.
Alike(a, c, f, g) == IF a = "codex" /\ c = Second
                     THEN [f EXCEPT !.trust = {}] = [g EXCEPT !.trust = {}]
                     ELSE f = g

\* A run nobody disturbs finds what it read, and leaves what it planned.
Undisturbed ==
  /\ OkIsCurrent
  /\ clean /\ phase \in Window => \A c \in Pair \ unread :
       Alike(agent, c, file[c],
             IF c \in committed THEN plan[c] ELSE seen[c])

\* Every approval is of a hook that stands where it was approved.
Approved(f, trust) ==
  \A t \in trust : t.at \in DOMAIN f.groups /\ t.of = f.groups[t.at]

InSync ==
  agent = "codex" /\ ~hurt =>
    /\ ~(phase = "commit" /\ Torn) => Approved(file[Reg], file[Second].trust)
    /\ phase \in Window /\ Second \notin unread \cup committed =>
         file[Second].trust = seen[Second].trust
    /\ phase = "commit" =>
         /\ Second \notin committed => file[Second].trust = prior[Second].trust
         /\ Approved(prior[Reg], prior[Second].trust)
         /\ Reg \notin committed => Approved(file[Reg], prior[Second].trust)

HooksInv ==
  /\ Shapes
  /\ RunPhase
  /\ Held
  /\ Undisturbed
  /\ InSync

-----------------------------------------------------------------------------
(* Groups at some positions, in their order.                                 *)

\* The rank of a position among those of S, and the position of every rank.
LEMMA RankIsOnto ==
  ASSUME NEW n \in Nat, NEW S \in SUBSET (1..n)
  PROVE  /\ Cardinality(S) \in Nat
         /\ \A i \in S : Rank(S, i) \in 1..Cardinality(S)
         /\ \A i, j \in S : Rank(S, i) = Rank(S, j) => i = j
         /\ \A k \in 1..Cardinality(S) : \E i \in S : Rank(S, i) = k
<1> DEFINE Upto(i) == {j \in S : j <= i}
<1> DEFINE Ranks == [i \in S |-> Rank(S, i)]
<1>1. IsFiniteSet(S) /\ Cardinality(S) \in Nat
  <2>1. IsFiniteSet(1..n)  BY FS_Interval
  <2> QED  BY <2>1, FS_Subset, FS_CardinalityType
<1>2. \A i \in S : /\ IsFiniteSet(Upto(i)) /\ Upto(i) \in SUBSET S
                   /\ Rank(S, i) = Cardinality(Upto(i)) /\ Rank(S, i) \in Nat
  BY <1>1, FS_Subset, FS_CardinalityType DEF Rank
<1>3. \A i \in S : Rank(S, i) \in 1..Cardinality(S)
  <2> SUFFICES ASSUME NEW i \in S
               PROVE  Rank(S, i) \in 1..Cardinality(S)
    OBVIOUS
  <2>1. i \in Upto(i)  OBVIOUS
  <2> HIDE DEF Upto
  <2>2. Rank(S, i) # 0  BY <1>2, <2>1, FS_EmptySet
  <2>3. Rank(S, i) <= Cardinality(S)  BY <1>1, <1>2, FS_Subset
  <2> QED  BY <1>1, <1>2, <2>2, <2>3
<1>4. \A i, j \in S : Rank(S, i) = Rank(S, j) => i = j
  <2>1. ASSUME NEW i \in S, NEW j \in S, i < j
        PROVE  Rank(S, i) # Rank(S, j)
    <3>0. \A h \in S : h <= i => h <= j  BY <2>1
    <3>1. Upto(i) \in SUBSET Upto(j)  BY <3>0
    <3>2. j \in Upto(j) /\ j \notin Upto(i)  BY <2>1
    <3> HIDE DEF Upto
    <3> QED  BY <1>2, <3>1, <3>2, FS_Subset
  <2>2. \A i, j \in S : i < j \/ j < i \/ i = j  OBVIOUS
  <2> QED  BY <2>1, <2>2
<1>5. Ranks \in Injection(S, 1..Cardinality(S))
  <2>1. Ranks \in [S -> 1..Cardinality(S)]  BY <1>3
  <2>2. \A i, j \in S : Ranks[i] = Ranks[j] => i = j  BY <1>4
  <2> QED  BY <2>1, <2>2 DEF Injection, IsInjective
<1>6. Ranks \in Surjection(S, 1..Cardinality(S))
  <2>1. /\ IsFiniteSet(1..Cardinality(S))
        /\ Cardinality(1..Cardinality(S)) = Cardinality(S)
    BY <1>1, FS_Interval
  <2> HIDE DEF Ranks
  <2> QED  BY <1>1, <1>5, <2>1, FS_Injection
<1>7. \A k \in 1..Cardinality(S) : \E i \in S : Rank(S, i) = k
  BY <1>6 DEF Surjection
<1> QED  BY <1>1, <1>3, <1>4, <1>7

\* Only takes the groups at those positions and no others.
LEMMA OnlyTakes ==
  ASSUME NEW G, NEW gs \in Seq(G), NEW S \in SUBSET DOMAIN gs
  PROVE  /\ Only(gs, S) \in Seq(G)
         /\ \A i \in S : \E k \in DOMAIN Only(gs, S) : Only(gs, S)[k] = gs[i]
         /\ \A k \in DOMAIN Only(gs, S) : \E i \in S : Only(gs, S)[k] = gs[i]
<1> DEFINE At(k) == CHOOSE i \in S : Rank(S, i) = k
<1>1. Len(gs) \in Nat /\ DOMAIN gs = 1..Len(gs) /\ \A i \in S : gs[i] \in G
  OBVIOUS
<1>2. S \in SUBSET (1..Len(gs))  BY <1>1
<1>3. /\ Cardinality(S) \in Nat
      /\ \A i \in S : Rank(S, i) \in 1..Cardinality(S)
      /\ \A i, j \in S : Rank(S, i) = Rank(S, j) => i = j
      /\ \A k \in 1..Cardinality(S) : \E i \in S : Rank(S, i) = k
  BY <1>1, <1>2, RankIsOnto
<1>4. \A k \in 1..Cardinality(S) : At(k) \in S /\ Rank(S, At(k)) = k
  BY <1>3
<1>5. Only(gs, S) = [k \in 1..Cardinality(S) |-> gs[At(k)]]  BY DEF Only
<1> HIDE DEF At
<1>6. \A i \in S : At(Rank(S, i)) = i  BY <1>3, <1>4
<1>7. Only(gs, S) \in [1..Cardinality(S) -> G]  BY <1>1, <1>4, <1>5
<1>8. DOMAIN Only(gs, S) = 1..Cardinality(S)  BY <1>5
<1>9. \A k \in 1..Cardinality(S) : Only(gs, S)[k] = gs[At(k)]  BY <1>5
<1>10. Only(gs, S) \in Seq(G)  BY <1>3, <1>7
<1> QED  BY <1>3, <1>4, <1>6, <1>8, <1>9, <1>10

-----------------------------------------------------------------------------
(* Files and what they hold.                                                 *)

LEMMA InContent ==
  ASSUME NEW f, NEW x
  PROVE  x \in Content(f) <=>
           \/ x \in f.mine
           \/ \E i \in DOMAIN f.groups : x \in f.groups[i].guests
           \/ /\ x = UserItem
              /\ \E i \in DOMAIN f.groups : f.groups[i].own = "edited"
<1>1. x \in Guests(f.groups)
        <=> \E i \in DOMAIN f.groups : x \in f.groups[i].guests
  BY DEF Guests
<1> QED  BY <1>1 DEF Content, HasEdited

LEMMA FieldsOfFiles ==
  ASSUME NEW f \in Files
  PROVE  /\ f.kind \in FileKinds /\ f.groups \in Seq(Group)
         /\ f.head \in BOOLEAN
         /\ f.text \in {"none", "current", "old", "edited", "foreign"}
         /\ f.features \in {"absent", "true", "false"}
         /\ f.trust \in SUBSET [at : Nat, of : Group]
         /\ f.mine \in SUBSET Items
         /\ f = [kind |-> f.kind, groups |-> f.groups, head |-> f.head,
                 text |-> f.text, features |-> f.features, trust |-> f.trust,
                 mine |-> f.mine]
BY DEF Files

LEMMA FilesFromFields ==
  ASSUME NEW k \in FileKinds, NEW gs \in Seq(Group), NEW h \in BOOLEAN,
         NEW t \in {"none", "current", "old", "edited", "foreign"},
         NEW s \in {"absent", "true", "false"},
         NEW tr \in SUBSET [at : Nat, of : Group], NEW m \in SUBSET Items
  PROVE  [kind |-> k, groups |-> gs, head |-> h, text |-> t, features |-> s,
          trust |-> tr, mine |-> m] \in Files
BY DEF Files

LEMMA FieldsOfGroups ==
  ASSUME NEW g \in Group
  PROVE  /\ g.own \in {"none", "current", "old", "edited", "cohort", "part"}
         /\ g.guests \in SUBSET Items
         /\ g.matcher \in {"exact", "other", "none"}
BY DEF Group

LEMMA BlankIsShaped ==
  ASSUME NEW a, NEW c
  PROVE  Blank \in Files /\ Shaped(a, c, Blank) /\ Content(Blank) = {}
<1>1. /\ Blank.kind = "absent" /\ Blank.groups = <<>> /\ Blank.mine = {}
      /\ Blank.text = "none"
  BY DEF Blank
<1>2. Blank \in Files
  <2>1. <<>> \in Seq(Group)  OBVIOUS
  <2>2. {} \in SUBSET [at : Nat, of : Group] /\ {} \in SUBSET Items  OBVIOUS
  <2> QED  BY <2>1, <2>2, FilesFromFields DEF Blank, FileKinds
<1>3. \A i \in DOMAIN Blank.groups : FALSE  BY <1>1
<1> QED  BY <1>1, <1>2, <1>3, InContent DEF Shaped, Readable

LEMMA KeepAndRefuse ==
  /\ Keep.kind = "keep" /\ Refuse.kind = "refuse" /\ Keep # Refuse
  /\ \A f : f.kind = "file" => f # Keep /\ f # Refuse
<1>1. Keep.kind = "keep" /\ Refuse.kind = "refuse"
  BY DEF Keep, Refuse, Blank
<1> QED  BY <1>1

LEMMA ContentIsTyped ==
  ASSUME NEW f \in Files
  PROVE  Content(f) \subseteq Items \cup {UserItem}
<1>1. \A i \in DOMAIN f.groups : f.groups[i] \in Group  BY FieldsOfFiles
<1> QED  BY <1>1, FieldsOfFiles, FieldsOfGroups, InContent

\* What is asked of the groups of a registration.
GroupsOk(gs) ==
  /\ gs \in Seq(Group)
  /\ \A i \in DOMAIN gs : gs[i].own = "cohort" => gs[i].guests = {}

LEMMA RegisteredIs ==
  ASSUME NEW f \in Files, NEW gs \in Seq(Group)
  PROVE  /\ Registered(f, gs) \in Files /\ Registered(f, gs).kind = "file"
         /\ Registered(f, gs).groups = gs /\ Registered(f, gs).head = TRUE
         /\ Registered(f, gs).text = f.text /\ Registered(f, gs).mine = f.mine
<1>1. Registered(f, gs) \in Files  BY DEF Registered, Files, FileKinds
<1>2. /\ Registered(f, gs).kind = "file" /\ Registered(f, gs).groups = gs
      /\ Registered(f, gs).head = TRUE /\ Registered(f, gs).text = f.text
      /\ Registered(f, gs).mine = f.mine
  BY DEF Registered, Files
<1> QED  BY <1>1, <1>2

LEMMA RegisteredIsShaped ==
  ASSUME NEW a \in Agents, a # "opencode", NEW f, Shaped(a, Reg, f),
         NEW gs, GroupsOk(gs)
  PROVE  Shaped(a, Reg, Registered(f, gs))
<1>1. f \in Files /\ f.text = "none"  BY DEF Shaped, IsAsset
<1>2. gs \in Seq(Group)  BY DEF GroupsOk
<1> DEFINE g == Registered(f, gs)
<1>3. /\ g \in Files /\ g.kind = "file" /\ g.groups = gs /\ g.text = "none"
  BY <1>1, <1>2, RegisteredIs
<1> HIDE DEF g
<1>4. Shaped(a, Reg, g)
  BY <1>3 DEF Shaped, IsAsset, Readable, GroupsOk
<1> QED  BY <1>4 DEF g

-----------------------------------------------------------------------------
(* The groups a planner writes.                                              *)

LEMMA FreshIsOk ==
  /\ Fresh \in Group /\ Fresh.own = "current" /\ Fresh.guests = {}
  /\ Fresh.matcher = "exact"
BY DEF Fresh, Group

LEMMA InGuests ==
  ASSUME NEW gs, NEW x
  PROVE  x \in Guests(gs) <=> \E i \in DOMAIN gs : x \in gs[i].guests
BY DEF Guests

\* Our handler is one group, if there is one and not two.
LEMMA OneIsOurs ==
  ASSUME NEW gs \in Seq(Group), ~(Cardinality(Ours(gs)) > 1), Ours(gs) # {}
  PROVE  Mine(gs) \in Ours(gs) /\ Ours(gs) = {Mine(gs)}
<1> DEFINE S == Ours(gs)
<1>1. Len(gs) \in Nat /\ S \in SUBSET (1..Len(gs))  BY DEF Ours
<1>2. Mine(gs) \in S  BY DEF Mine
<1> HIDE DEF S
<1>3. /\ Cardinality(S) \in Nat
      /\ \A i \in S : Rank(S, i) \in 1..Cardinality(S)
      /\ \A i, j \in S : Rank(S, i) = Rank(S, j) => i = j
  BY <1>1, RankIsOnto
<1>4. ~(Cardinality(S) > 1)  BY DEF S
<1>5. \A i, j \in S : i = j  BY <1>3, <1>4
<1> QED  BY <1>2, <1>5 DEF S

LEMMA OneIsOne ==
  ASSUME NEW gs, NEW m, Ours(gs) = {m}
  PROVE  Cardinality(Ours(gs)) = 1 /\ Mine(gs) = m
<1>1. Mine(gs) = m  BY DEF Mine
<1> QED  BY <1>1, FS_Singleton

\* A single current handler under the managed matcher is what Claude wants.
LEMMA CurrentIsManaged ==
  ASSUME NEW gs, NEW m, Ours(gs) = {m}, gs[m].own = "current",
         gs[m].matcher = "exact"
  PROVE  ClaudeEntry(gs) = "managed-current"
<1>1. Cardinality(Ours(gs)) = 1 /\ Mine(gs) = m  BY OneIsOne
<1>2. ~(Cardinality(Ours(gs)) > 1) /\ Ours(gs) # {}  BY <1>1
<1> QED  BY <1>1, <1>2, Zenon DEF ClaudeEntry

\* The groups of somebody else stay when ours is appended.
LEMMA AppendedIs ==
  ASSUME NEW gs, GroupsOk(gs), NEW g \in Group, g.own # "cohort"
  PROVE  /\ GroupsOk(Append(gs, g))
         /\ Guests(Append(gs, g)) = Guests(gs) \cup g.guests
         /\ DOMAIN Append(gs, g) = (DOMAIN gs) \cup {Len(gs) + 1}
         /\ Len(gs) + 1 \notin DOMAIN gs
         /\ Append(gs, g)[Len(gs) + 1] = g
         /\ \A i \in DOMAIN gs : Append(gs, g)[i] = gs[i]
<1> DEFINE hs == Append(gs, g)
<1>1. gs \in Seq(Group) /\ Len(gs) \in Nat /\ DOMAIN gs = 1..Len(gs)
  BY DEF GroupsOk
<1>2. /\ hs \in Seq(Group) /\ Len(hs) = Len(gs) + 1
      /\ DOMAIN hs = 1..(Len(gs) + 1) /\ hs[Len(gs) + 1] = g
      /\ \A i \in 1..Len(gs) : hs[i] = gs[i]
  BY <1>1
<1> HIDE DEF hs
<1>3. /\ DOMAIN hs = (DOMAIN gs) \cup {Len(gs) + 1}
      /\ Len(gs) + 1 \notin DOMAIN gs
  BY <1>1, <1>2
<1>4. \A i \in DOMAIN gs : hs[i] = gs[i]  BY <1>1, <1>2
<1>5. \A i \in DOMAIN hs : hs[i].own = "cohort" => hs[i].guests = {}
  BY <1>2, <1>3, <1>4 DEF GroupsOk
<1>6. GroupsOk(hs)  BY <1>2, <1>5 DEF GroupsOk
<1>7. \A x : x \in Guests(hs) <=> x \in Guests(gs) \cup g.guests
  BY <1>2, <1>3, <1>4, InGuests
<1>8. Guests(hs) = Guests(gs) \cup g.guests  BY <1>7
<1> QED  BY <1>2, <1>3, <1>4, <1>6, <1>8 DEF hs

\* Ours appended to groups without one is managed.
LEMMA AppendedIsManaged ==
  ASSUME NEW gs, GroupsOk(gs), Ours(gs) = {}
  PROVE  /\ GroupsOk(Append(gs, Fresh))
         /\ Guests(gs) \subseteq Guests(Append(gs, Fresh))
         /\ ClaudeEntry(Append(gs, Fresh)) = "managed-current"
<1> DEFINE hs == Append(gs, Fresh)
<1>1. /\ GroupsOk(hs) /\ Guests(gs) \subseteq Guests(hs)
      /\ DOMAIN hs = (DOMAIN gs) \cup {Len(gs) + 1}
      /\ hs[Len(gs) + 1] = Fresh
      /\ \A i \in DOMAIN gs : hs[i] = gs[i]
  BY AppendedIs, FreshIsOk
<1> HIDE DEF hs
<1>2. \A i \in DOMAIN gs : gs[i].own \notin {"current", "old", "edited"}
  BY DEF Ours
<1>3. Ours(hs) = {Len(gs) + 1}  BY <1>1, <1>2, FreshIsOk DEF Ours
<1>4. ClaudeEntry(hs) = "managed-current"
  BY <1>1, <1>3, FreshIsOk, CurrentIsManaged
<1> QED  BY <1>1, <1>4 DEF hs

LEMMA ReplacedIs ==
  ASSUME NEW gs, GroupsOk(gs), NEW m, Ours(gs) = {m}
  PROVE  /\ GroupsOk(Replaced(gs)) /\ Guests(Replaced(gs)) = Guests(gs)
         /\ ClaudeEntry(Replaced(gs)) = "managed-current"
<1> DEFINE g == [gs[m] EXCEPT !.own = "current", !.matcher = "exact"]
<1> DEFINE hs == Replaced(gs)
<1>1. m \in DOMAIN gs /\ gs \in Seq(Group) /\ gs[m] \in Group
  BY DEF Ours, GroupsOk
<1>2. Mine(gs) = m  BY OneIsOne
<1>3. /\ g \in Group /\ g.own = "current" /\ g.matcher = "exact"
      /\ g.guests = gs[m].guests
  BY <1>1 DEF Group
<1>4. hs = [gs EXCEPT ![m] = g]  BY <1>1, <1>2 DEF Replaced
<1> HIDE DEF g, hs
<1>5. /\ DOMAIN hs = DOMAIN gs /\ hs[m] = g
      /\ \A i \in DOMAIN gs : i # m => hs[i] = gs[i]
  BY <1>1, <1>4
<1>6. hs \in Seq(Group)  BY <1>1, <1>3, <1>4
<1>7. GroupsOk(hs)  BY <1>3, <1>5, <1>6 DEF GroupsOk
<1>8. \A x : x \in Guests(hs) <=> x \in Guests(gs)
  BY <1>1, <1>3, <1>5, InGuests
<1>9. Guests(hs) = Guests(gs)  BY <1>8
<1>10. Ours(hs) = {m}
  <2>1. \A i : i \in Ours(hs) <=> i \in {m}
    BY <1>1, <1>3, <1>5 DEF Ours
  <2> QED  BY <2>1
<1>11. ClaudeEntry(hs) = "managed-current"
  BY <1>3, <1>5, <1>10, CurrentIsManaged
<1> QED  BY <1>7, <1>9, <1>11 DEF hs

\* Excising the cohort takes nothing of a guest.
LEMMA ExcisedIs ==
  ASSUME NEW gs, GroupsOk(gs), Ours(gs) = {}
  PROVE  /\ GroupsOk(Excised(gs)) /\ Guests(gs) \subseteq Guests(Excised(gs))
         /\ ClaudeEntry(Excised(gs)) = "managed-current"
<1> DEFINE S == {i \in DOMAIN gs : gs[i].own # "cohort"}
<1> DEFINE hs == Only(gs, S)
<1>1. gs \in Seq(Group) /\ S \in SUBSET DOMAIN gs  BY DEF GroupsOk
<1> HIDE DEF S, hs
<1>2. /\ hs \in Seq(Group)
      /\ \A i \in S : \E k \in DOMAIN hs : hs[k] = gs[i]
      /\ \A k \in DOMAIN hs : \E i \in S : hs[k] = gs[i]
  BY <1>1, OnlyTakes DEF hs
<1>3. GroupsOk(hs)  BY <1>1, <1>2 DEF GroupsOk
<1>4. Guests(gs) \subseteq Guests(hs)
  <2>1. \A i \in DOMAIN gs : i \notin S => gs[i].guests = {}
    BY DEF S, GroupsOk
  <2> QED  BY <1>2, <2>1, InGuests
<1>5. Ours(hs) = {}  BY <1>1, <1>2 DEF Ours
<1>6. Excised(gs) = Append(hs, Fresh)  BY DEF Excised, hs, S
<1>7. /\ GroupsOk(Append(hs, Fresh))
      /\ Guests(hs) \subseteq Guests(Append(hs, Fresh))
      /\ ClaudeEntry(Append(hs, Fresh)) = "managed-current"
  BY <1>3, <1>5, AppendedIsManaged
<1> QED  BY <1>4, <1>6, <1>7

\* Merging leaves every guest in a group and adds one current handler.
LEMMA MergedIs ==
  ASSUME NEW gs, GroupsOk(gs)
  PROVE  /\ GroupsOk(Merged(gs)) /\ Guests(gs) \subseteq Guests(Merged(gs))
         /\ \E i \in DOMAIN Merged(gs) : Merged(gs)[i].own = "current"
<1> DEFINE bare == [i \in DOMAIN gs |-> [gs[i] EXCEPT !.own = "none"]]
<1> DEFINE S == {i \in DOMAIN gs : gs[i].guests # {}}
<1> DEFINE hs == Only(bare, S)
<1>1. gs \in Seq(Group) /\ S \in SUBSET DOMAIN gs  BY DEF GroupsOk
<1> HIDE DEF S
<1>2. /\ DOMAIN bare = DOMAIN gs
      /\ \A i \in DOMAIN gs : /\ bare[i] \in Group /\ bare[i].own = "none"
                              /\ bare[i].guests = gs[i].guests
  <2>1. \A i \in DOMAIN gs : gs[i] \in Group  BY <1>1
  <2>2. ASSUME NEW q \in Group
        PROVE  /\ [q EXCEPT !.own = "none"] \in Group
               /\ [q EXCEPT !.own = "none"].own = "none"
               /\ [q EXCEPT !.own = "none"].guests = q.guests
    BY DEF Group
  <2>3. DOMAIN bare = DOMAIN gs  OBVIOUS
  <2>4. \A i \in DOMAIN gs : bare[i] = [gs[i] EXCEPT !.own = "none"]  OBVIOUS
  <2> HIDE DEF bare
  <2>5. ASSUME NEW i \in DOMAIN gs
        PROVE  /\ bare[i] \in Group /\ bare[i].own = "none"
               /\ bare[i].guests = gs[i].guests
    <3>1. PICK q \in Group : q = gs[i]  BY <2>1
    <3>2. bare[i] = [q EXCEPT !.own = "none"]  BY <2>4, <3>1
    <3> QED  BY <2>2, <3>1, <3>2
  <2> QED  BY <2>3, <2>5
<1> HIDE DEF bare
<1>3. bare \in Seq(Group)
  <2>1. DOMAIN gs = 1..Len(gs) /\ Len(gs) \in Nat  BY <1>1
  <2>2. bare = [i \in DOMAIN gs |-> bare[i]]  BY DEF bare
  <2>3. bare \in [1..Len(gs) -> Group]  BY <1>2, <2>1, <2>2
  <2> QED  BY <2>1, <2>3
<1>4. S \in SUBSET DOMAIN bare  BY <1>1, <1>2
<1> HIDE DEF hs
<1>5. /\ hs \in Seq(Group)
      /\ \A i \in S : \E k \in DOMAIN hs : hs[k] = bare[i]
      /\ \A k \in DOMAIN hs : \E i \in S : hs[k] = bare[i]
  BY <1>3, <1>4, OnlyTakes DEF hs
<1>6. GroupsOk(hs)  BY <1>1, <1>2, <1>5 DEF GroupsOk
<1>7. Guests(gs) \subseteq Guests(hs)
  <2> SUFFICES ASSUME NEW x \in Guests(gs)
               PROVE  x \in Guests(hs)
    OBVIOUS
  <2>1. PICK i \in DOMAIN gs : x \in gs[i].guests  BY InGuests
  <2>2. i \in S  BY <2>1 DEF S
  <2>3. PICK k \in DOMAIN hs : hs[k] = bare[i]  BY <1>5, <2>2
  <2>4. x \in hs[k].guests  BY <1>2, <2>1, <2>3
  <2> QED  BY <2>4, InGuests
<1>8. Merged(gs) = Append(hs, Fresh)  BY DEF Merged, hs, bare, S
<1>9. /\ GroupsOk(Append(hs, Fresh))
      /\ Guests(Append(hs, Fresh)) = Guests(hs) \cup Fresh.guests
      /\ DOMAIN Append(hs, Fresh) = (DOMAIN hs) \cup {Len(hs) + 1}
      /\ Append(hs, Fresh)[Len(hs) + 1] = Fresh
  BY <1>6, FreshIsOk, AppendedIs
<1> QED  BY <1>7, <1>8, <1>9, FreshIsOk

-----------------------------------------------------------------------------
(* The planners.                                                             *)

\* Registering keeps what stood beside and inside the groups it keeps.
LEMMA RegisteredHolds ==
  ASSUME NEW f \in Files, NEW gs \in Seq(Group),
         Guests(f.groups) \subseteq Guests(gs)
  PROVE  /\ Content(f) \ {UserItem} \subseteq Content(Registered(f, gs))
         /\ ~HasEdited(f.groups) => Content(f) \subseteq
                                   Content(Registered(f, gs))
<1> DEFINE g == Registered(f, gs)
<1>1. g.groups = gs /\ g.mine = f.mine  BY RegisteredIs
<1> HIDE DEF g
<1>2. f.mine \cup Guests(f.groups) \subseteq Content(g)
  BY <1>1 DEF Content
<1> QED  BY <1>2 DEF Content, g

LEMMA NothingInBlank ==
  ASSUME NEW a, NEW c, NEW f, Shaped(a, c, f), f.kind \in {"absent", "legacy"}
  PROVE  f.groups = <<>> /\ Content(f) = {}
<1>1. f.kind = "absent" => f = Blank  BY DEF Shaped
<1>2. f.kind = "legacy" => f.groups = <<>> /\ f.mine = {}
  BY DEF Shaped, Readable
<1>3. Blank.groups = <<>> /\ Blank.mine = {}  BY DEF Blank
<1>4. f.groups = <<>> /\ f.mine = {}  BY <1>1, <1>2, <1>3
<1>5. \A i \in DOMAIN f.groups : FALSE  BY <1>4
<1> QED  BY <1>4, <1>5, InContent

LEMMA GroupsAreOk ==
  ASSUME NEW a, NEW c, NEW f, Shaped(a, c, f)
  PROVE  f \in Files /\ GroupsOk(f.groups)
<1>1. f \in Files  BY DEF Shaped
<1>2. f.groups \in Seq(Group)  BY <1>1, FieldsOfFiles
<1>3. \A i \in DOMAIN f.groups :
        f.groups[i].own = "cohort" => f.groups[i].guests = {}
  BY DEF Shaped
<1> QED  BY <1>1, <1>2, <1>3 DEF GroupsOk

-----------------------------------------------------------------------------

LEMMA ClaudeReads ==
  ASSUME NEW f \in Files
  PROVE  \/ f.kind \in {"absent", "symlink"} /\ ClaudeSettings(f) = f.kind
         \/ f.kind = "special" /\ ClaudeSettings(f) = "non-regular"
         \/ /\ f.kind \in {"opaque", "garbage"}
            /\ ClaudeSettings(f) = "malformed"
         \/ f.kind = "legacy" /\ ClaudeSettings(f) = "exact-legacy"
         \/ f.kind = "file" /\ ClaudeSettings(f) = ClaudeEntry(f.groups)
BY FieldsOfFiles DEF ClaudeSettings, FileKinds

LEMMA ClaudeEntries ==
  ASSUME NEW gs
  PROVE  \/ /\ Cardinality(Ours(gs)) > 1
            /\ ClaudeEntry(gs) = "edited-managed"
         \/ /\ Ours(gs) = {}
            /\ ClaudeEntry(gs) \in {"exact-legacy", "foreign", "absent"}
         \/ /\ ~(Cardinality(Ours(gs)) > 1) /\ Ours(gs) # {}
            /\ gs[Mine(gs)].own = "current"
            /\ ClaudeEntry(gs) = "managed-current"
         \/ /\ ~(Cardinality(Ours(gs)) > 1) /\ Ours(gs) # {}
            /\ gs[Mine(gs)].own = "old"
            /\ ClaudeEntry(gs) = "released-outdated"
         \/ /\ ~(Cardinality(Ours(gs)) > 1) /\ Ours(gs) # {}
            /\ ClaudeEntry(gs) = "edited-managed"
<1>1. Legacy(gs) \in {"exact-legacy", "foreign", "absent"}  BY DEF Legacy
<1> DEFINE many == Cardinality(Ours(gs)) > 1
<1>2. CASE many
  <2>1. Cardinality({}) = 0  BY FS_EmptySet
  <2>2. Ours(gs) # {}  BY <1>2, <2>1
  <2> QED  BY <1>2, <2>2 DEF ClaudeEntry
<1>3. CASE ~many /\ Ours(gs) = {}
  BY <1>1, <1>3 DEF ClaudeEntry
<1>4. CASE ~many /\ Ours(gs) # {}
  BY <1>4 DEF ClaudeEntry
<1> QED  BY <1>2, <1>3, <1>4

\* What Claude's planner writes is well formed and current.
LEMMA ClaudeWrites ==
  ASSUME NEW f, Shaped("claude", Reg, f), NEW gs, GroupsOk(gs),
         ClaudeEntry(gs) = "managed-current"
  PROVE  /\ Shaped("claude", Reg, Registered(f, gs))
         /\ ClaudeSettings(Registered(f, gs)) = "managed-current"
         /\ Registered(f, gs) \notin {Keep, Refuse}
<1> DEFINE g == Registered(f, gs)
<1>1. f \in Files /\ gs \in Seq(Group)  BY GroupsAreOk DEF GroupsOk
<1>2. g.kind = "file" /\ g.groups = gs  BY <1>1, RegisteredIs
<1>3. Shaped("claude", Reg, g)  BY RegisteredIsShaped DEF Agents
<1> HIDE DEF g
<1>4. ClaudeSettings(g) = "managed-current"  BY <1>2 DEF ClaudeSettings
<1>5. g \notin {Keep, Refuse}  BY <1>2, KeepAndRefuse
<1> QED  BY <1>3, <1>4, <1>5 DEF g

LEMMA JustFresh ==
  /\ GroupsOk(<<Fresh>>) /\ ClaudeEntry(<<Fresh>>) = "managed-current"
<1>1. /\ <<Fresh>> \in Seq(Group) /\ <<Fresh>>[1] = Fresh
      /\ DOMAIN <<Fresh>> = {1}
  BY FreshIsOk
<1>2. GroupsOk(<<Fresh>>)  BY <1>1, FreshIsOk DEF GroupsOk
<1>3. Ours(<<Fresh>>) = {1}  BY <1>1, FreshIsOk DEF Ours
<1> QED  BY <1>1, <1>2, <1>3, FreshIsOk, CurrentIsManaged

LEMMA ClaudePlans ==
  ASSUME NEW f, Shaped("claude", Reg, f), NEW force \in BOOLEAN
  PROVE  LET p == ClaudePlan(f, force)
         IN /\ p = Keep <=> ClaudeSettings(f) = "managed-current"
            /\ p \notin {Keep, Refuse} =>
                 /\ Shaped("claude", Reg, p)
                 /\ ClaudeSettings(p) = "managed-current"
                 /\ \/ Content(f) \subseteq Content(p)
                    \/ force /\ ClaudeSettings(f) = "edited-managed"
<1> DEFINE p == ClaudePlan(f, force)
           state == ClaudeSettings(f)
           gs == f.groups
<1>1. /\ f \in Files /\ GroupsOk(gs) /\ gs \in Seq(Group)
  BY GroupsAreOk DEF GroupsOk
<1>2. Keep # Refuse  BY KeepAndRefuse
<1>3. CASE state = "managed-current"
  <2>1. p = Keep  BY <1>3 DEF ClaudePlan
  <2> QED  BY <1>3, <2>1
<1>4. CASE state = "absent" /\ f.kind = "absent"
  <2>1. p = Registered(Blank, <<Fresh>>)  BY <1>4 DEF ClaudePlan
  <2>2. Content(f) = {}  BY <1>4, NothingInBlank
  <2> QED  BY <1>4, <2>1, <2>2, JustFresh, BlankIsShaped, ClaudeWrites
<1>5. CASE state = "absent" /\ f.kind # "absent"
  <2>1. p = Registered(f, Append(gs, Fresh))  BY <1>5 DEF ClaudePlan
  <2>2. ClaudeEntry(gs) = "absent"  BY <1>1, <1>5, ClaudeReads
  <2>3. Ours(gs) = {}  BY <2>2, ClaudeEntries
  <2>4. /\ GroupsOk(Append(gs, Fresh))
        /\ Guests(gs) \subseteq Guests(Append(gs, Fresh))
        /\ ClaudeEntry(Append(gs, Fresh)) = "managed-current"
    BY <1>1, <2>3, AppendedIsManaged
  <2>5. ~HasEdited(gs)  BY <2>3 DEF Ours, HasEdited
  <2>6. Append(gs, Fresh) \in Seq(Group)  BY <2>4 DEF GroupsOk
  <2>7. Content(f) \subseteq Content(p)
    BY <1>1, <2>1, <2>4, <2>5, <2>6, RegisteredHolds
  <2>8. /\ Shaped("claude", Reg, p) /\ ClaudeSettings(p) = "managed-current"
        /\ p \notin {Keep, Refuse}
    BY <2>1, <2>4, ClaudeWrites
  <2> QED  BY <1>5, <2>7, <2>8
<1>6. CASE state = "released-outdated"
  <2>1. p = Registered(f, Replaced(gs))  BY <1>6 DEF ClaudePlan
  <2>2. ClaudeEntry(gs) = "released-outdated"  BY <1>1, <1>6, ClaudeReads
  <2>3. ~(Cardinality(Ours(gs)) > 1) /\ Ours(gs) # {}
          /\ gs[Mine(gs)].own = "old"
    BY <2>2, ClaudeEntries
  <2>4. Ours(gs) = {Mine(gs)}  BY <1>1, <2>3, OneIsOurs
  <2>5. /\ GroupsOk(Replaced(gs)) /\ Guests(Replaced(gs)) = Guests(gs)
        /\ ClaudeEntry(Replaced(gs)) = "managed-current"
    BY <1>1, <2>4, ReplacedIs
  <2>6. ~HasEdited(gs)
    <3>1. \A i \in DOMAIN gs : gs[i].own = "edited" => i \in Ours(gs)
      BY DEF Ours
    <3> QED  BY <2>3, <2>4, <3>1 DEF HasEdited
  <2>7. Replaced(gs) \in Seq(Group)  BY <2>5 DEF GroupsOk
  <2>8. Content(f) \subseteq Content(p)
    BY <1>1, <2>1, <2>5, <2>6, <2>7, RegisteredHolds
  <2>9. /\ Shaped("claude", Reg, p) /\ ClaudeSettings(p) = "managed-current"
        /\ p \notin {Keep, Refuse}
    BY <2>1, <2>5, ClaudeWrites
  <2> QED  BY <1>6, <2>8, <2>9
<1>7. CASE state = "exact-legacy" /\ f.kind = "legacy"
  <2>1. p = Registered(Blank, <<Fresh>>)  BY <1>7 DEF ClaudePlan
  <2>2. Content(f) = {}  BY <1>7, NothingInBlank
  <2> QED  BY <1>7, <2>1, <2>2, JustFresh, BlankIsShaped, ClaudeWrites
<1>8. CASE state = "exact-legacy" /\ f.kind # "legacy"
  <2>1. p = Registered(f, Excised(gs))  BY <1>8 DEF ClaudePlan
  <2>2. ClaudeEntry(gs) = "exact-legacy"  BY <1>1, <1>8, ClaudeReads
  <2>3. Ours(gs) = {}  BY <2>2, ClaudeEntries
  <2>4. /\ GroupsOk(Excised(gs)) /\ Guests(gs) \subseteq Guests(Excised(gs))
        /\ ClaudeEntry(Excised(gs)) = "managed-current"
    BY <1>1, <2>3, ExcisedIs
  <2>5. ~HasEdited(gs)  BY <2>3 DEF Ours, HasEdited
  <2>6. Excised(gs) \in Seq(Group)  BY <2>4 DEF GroupsOk
  <2>7. Content(f) \subseteq Content(p)
    BY <1>1, <2>1, <2>4, <2>5, <2>6, RegisteredHolds
  <2>8. /\ Shaped("claude", Reg, p) /\ ClaudeSettings(p) = "managed-current"
        /\ p \notin {Keep, Refuse}
    BY <2>1, <2>4, ClaudeWrites
  <2> QED  BY <1>8, <2>7, <2>8
<1>9. CASE state = "edited-managed" /\ force /\ ForceReplaces(gs)
  <2>1. p = Registered(f, Replaced(gs))  BY <1>9 DEF ClaudePlan
  <2>2. \E i : Ours(gs) = {i}
    <3>1. IsFiniteSet(Ours(gs))
      <4>1. IsFiniteSet(1..Len(gs))  BY <1>1, FS_Interval
      <4>2. Ours(gs) \in SUBSET (1..Len(gs))  BY <1>1 DEF Ours
      <4> QED  BY <4>1, <4>2, FS_Subset
    <3>2. Cardinality(Ours(gs)) = 1  BY <1>9 DEF ForceReplaces
    <3> QED  BY <3>1, <3>2, FS_Singleton
  <2>3. /\ GroupsOk(Replaced(gs))
        /\ ClaudeEntry(Replaced(gs)) = "managed-current"
    BY <1>1, <2>2, ReplacedIs
  <2>4. /\ Shaped("claude", Reg, p) /\ ClaudeSettings(p) = "managed-current"
        /\ p \notin {Keep, Refuse}
    BY <2>1, <2>3, ClaudeWrites
  <2> QED  BY <1>9, <2>4
<1>10. CASE /\ state \notin {"managed-current", "absent", "released-outdated",
                             "exact-legacy"}
            /\ ~(state = "edited-managed" /\ force /\ ForceReplaces(gs))
  <2>1. p = Refuse  BY <1>10 DEF ClaudePlan
  <2> QED  BY <1>2, <1>10, <2>1
<1> QED  BY <1>3, <1>4, <1>5, <1>6, <1>7, <1>8, <1>9, <1>10

-----------------------------------------------------------------------------

\* What Codex and Cursor merge is well formed and holds every guest.
LEMMA MergeWrites ==
  ASSUME NEW a \in Agents, a # "opencode", NEW f, Shaped(a, Reg, f)
  PROVE  LET p == Registered(f, Merged(f.groups))
         IN /\ Shaped(a, Reg, p) /\ p.kind = "file" /\ p.head = TRUE
            /\ p \notin {Keep, Refuse}
            /\ \E i \in Ours(p.groups) : p.groups[i].own = "current"
            /\ Content(f) \ {UserItem} \subseteq Content(p)
            /\ ~HasEdited(f.groups) => Content(f) \subseteq Content(p)
<1> DEFINE gs == Merged(f.groups)
           p == Registered(f, gs)
<1>1. f \in Files /\ GroupsOk(f.groups)  BY GroupsAreOk
<1>2. /\ GroupsOk(gs) /\ Guests(f.groups) \subseteq Guests(gs)
      /\ \E i \in DOMAIN gs : gs[i].own = "current"
  BY <1>1, MergedIs
<1>3. gs \in Seq(Group)  BY <1>2 DEF GroupsOk
<1> HIDE DEF gs
<1>4. Shaped(a, Reg, p)  BY <1>2, RegisteredIsShaped
<1>5. p.kind = "file" /\ p.groups = gs /\ p.head = TRUE
  BY <1>1, <1>3, RegisteredIs
<1>6. /\ Content(f) \ {UserItem} \subseteq Content(p)
      /\ ~HasEdited(f.groups) => Content(f) \subseteq Content(p)
  BY <1>1, <1>2, <1>3, RegisteredHolds
<1>7. \E i \in Ours(gs) : gs[i].own = "current"  BY <1>2 DEF Ours
<1> QED  BY <1>4, <1>5, <1>6, <1>7, KeepAndRefuse DEF gs

LEMMA CodexPlans ==
  ASSUME NEW f, Shaped("codex", Reg, f)
  PROVE  LET p == CodexPlan(f)
         IN /\ p = Keep <=> CodexHooks(f) = "managed-current"
            /\ p \notin {Keep, Refuse} =>
                 /\ Shaped("codex", Reg, p)
                 /\ CodexHooks(p) = "managed-current"
                 /\ Content(f) \subseteq Content(p)
                 /\ f.kind \notin {"file", "symlink"} => Content(f) = {}
<1> DEFINE p == CodexPlan(f)
<1>1. Keep # Refuse  BY KeepAndRefuse
<1>2. CASE CodexHooks(f) \in {"malformed", "non-regular"}
  BY <1>1, <1>2 DEF CodexPlan
<1>3. CASE CodexHooks(f) = "managed-current"
  BY <1>1, <1>3 DEF CodexPlan
<1>4. CASE CodexHooks(f) \notin {"malformed", "non-regular",
                                 "managed-current"}
  <2> DEFINE q == Registered(f, Merged(f.groups))
  <2>1. p = q  BY <1>4 DEF CodexPlan
  <2> HIDE DEF p
  <2>2. /\ Shaped("codex", Reg, p) /\ p.kind = "file"
        /\ p \notin {Keep, Refuse}
        /\ \E i \in Ours(p.groups) : p.groups[i].own = "current"
        /\ ~HasEdited(f.groups) => Content(f) \subseteq Content(p)
    BY <2>1, MergeWrites DEF Agents
  <2> HIDE DEF q
  <2>3. CodexHooks(p) = "managed-current"  BY <2>2 DEF CodexHooks
  <2>4. f \in Files  BY DEF Shaped
  <2>5. f.kind \in {"absent", "symlink", "legacy", "file"}
    BY <1>4, <2>4, FieldsOfFiles DEF CodexHooks, FileKinds
  <2>6. f.kind \in {"absent", "legacy"} => Content(f) = {}
    BY NothingInBlank
  <2>7. f.kind \in {"file", "symlink"} => ~HasEdited(f.groups)
    BY <1>4 DEF CodexHooks, HasEdited, Ours
  <2>8. Content(f) \subseteq Content(p)  BY <2>2, <2>5, <2>6, <2>7
  <2> QED  BY <1>4, <2>2, <2>3, <2>5, <2>6, <2>8 DEF p
<1> QED  BY <1>2, <1>3, <1>4

LEMMA CursorPlans ==
  ASSUME NEW f, Shaped("cursor", Reg, f), NEW force \in BOOLEAN
  PROVE  LET p == CursorPlan(f, force)
         IN /\ p = Keep <=> CursorHooks(f) = "managed-current"
            /\ p \notin {Keep, Refuse} =>
                 /\ Shaped("cursor", Reg, p)
                 /\ CursorHooks(p) = "managed-current"
                 /\ Content(f) \ (Hidden \cup {UserItem}) \subseteq Content(p)
<1> DEFINE p == CursorPlan(f, force)
           base == IF f.kind = "file" THEN f ELSE Blank
           merged == Registered(base, Merged(base.groups))
           state == CursorHooks(f)
<1>1. Keep # Refuse  BY KeepAndRefuse
<1>2. Shaped("cursor", Reg, base)  BY BlankIsShaped
<1>3. f \in Files  BY DEF Shaped
<1> HIDE DEF base
<1>4. /\ Shaped("cursor", Reg, merged) /\ merged.kind = "file"
      /\ merged.head = TRUE /\ merged \notin {Keep, Refuse}
      /\ \E i \in Ours(merged.groups) : merged.groups[i].own = "current"
      /\ Content(base) \ {UserItem} \subseteq Content(merged)
  BY <1>2, MergeWrites DEF Agents
<1>5. CursorHooks(merged) = "managed-current"
  <2> HIDE DEF merged
  <2> QED  BY <1>4 DEF CursorHooks
<1>6. p = IF state = "foreign" THEN merged ELSE WritePlan(state, force, merged)
  BY DEF CursorPlan, base
<1> HIDE DEF merged
<1>7. state # "edited-managed"
  BY <1>3, FieldsOfFiles DEF CursorHooks, FileKinds
<1>8. CASE state = "managed-current"
  BY <1>1, <1>6, <1>8 DEF WritePlan
<1>9. CASE state \notin {"foreign", "managed-current", "absent",
                         "released-outdated"}
  <2>1. p = Refuse  BY <1>6, <1>7, <1>9 DEF WritePlan
  <2> QED  BY <1>1, <1>9, <2>1
<1>10. CASE state \in {"foreign", "absent", "released-outdated"}
  <2>1. p = merged  BY <1>6, <1>10 DEF WritePlan
  <2>2. f.kind \in {"absent", "legacy", "opaque", "file"}
    BY <1>3, <1>10, FieldsOfFiles DEF CursorHooks, FileKinds
  <2>3. f.kind \in {"absent", "legacy"} => Content(f) = {}
    BY NothingInBlank
  <2>4. f.kind = "opaque" => Content(f) \subseteq Hidden
    <3> SUFFICES ASSUME f.kind = "opaque"
                 PROVE  Content(f) \subseteq Hidden
      OBVIOUS
    <3>1. f.groups = <<>> /\ f.mine \subseteq Hidden  BY DEF Shaped, Readable
    <3>2. \A i \in DOMAIN f.groups : FALSE  BY <3>1
    <3> QED  BY <3>1, <3>2, InContent
  <2>5. f.kind = "file" => base = f  BY DEF base
  <2>6. Content(f) \ (Hidden \cup {UserItem}) \subseteq Content(merged)
    BY <1>4, <2>2, <2>3, <2>4, <2>5
  <2> QED  BY <1>4, <1>5, <1>10, <2>1, <2>6
<1> QED  BY <1>8, <1>9, <1>10

LEMMA GrokPlans ==
  ASSUME NEW f, Shaped("grok", Reg, f), NEW force \in BOOLEAN
  PROVE  LET p == GrokPlan(f, force)
         IN /\ p = Keep <=> GrokHook(f) = "managed-current"
            /\ p \notin {Keep, Refuse} =>
                 /\ Shaped("grok", Reg, p)
                 /\ GrokHook(p) = "managed-current"
                 /\ \/ Content(f) \subseteq Content(p)
                    \/ force /\ GrokHook(f) = "edited-managed"
<1> DEFINE p == GrokPlan(f, force)
           whole == Registered(Blank, GrokFile)
           state == GrokHook(f)
<1>1. Keep # Refuse  BY KeepAndRefuse
<1>2. GrokFile = <<Fresh>>  BY DEF GrokFile, Fresh
<1>3. Shaped("grok", Reg, whole)
  BY <1>2, BlankIsShaped, JustFresh, RegisteredIsShaped DEF Agents
<1>4. /\ whole.kind = "file" /\ whole.groups = GrokFile /\ whole.head = TRUE
      /\ whole.mine = {}
  <2>1. GrokFile \in Seq(Group)  BY <1>2, JustFresh DEF GroupsOk
  <2>2. Blank.mine = {}  BY DEF Blank
  <2> QED  BY <2>1, <2>2, BlankIsShaped, RegisteredIs
<1> HIDE DEF whole
<1>5. GrokHook(whole) = "managed-current" /\ whole \notin {Keep, Refuse}
  BY <1>4, KeepAndRefuse DEF GrokHook
<1>6. p = WritePlan(state, force, whole)  BY DEF GrokPlan, whole
<1>7. f \in Files  BY DEF Shaped
<1>8. state # "released-outdated" /\ (state = "absent" => f.kind = "absent")
  BY <1>7, FieldsOfFiles DEF GrokHook, FileKinds
<1>9. CASE state = "absent"
  <2>1. p = whole  BY <1>6, <1>9 DEF WritePlan
  <2>2. Content(f) = {}  BY <1>8, <1>9, NothingInBlank
  <2> QED  BY <1>3, <1>5, <1>9, <2>1, <2>2
<1>10. CASE state = "managed-current"
  BY <1>1, <1>6, <1>10 DEF WritePlan
<1>11. CASE state = "edited-managed" /\ force
  <2>1. p = whole  BY <1>6, <1>11 DEF WritePlan
  <2> QED  BY <1>3, <1>5, <1>11, <2>1
<1>12. CASE /\ state \notin {"absent", "managed-current"}
            /\ ~(state = "edited-managed" /\ force)
  <2>1. p = Refuse  BY <1>6, <1>8, <1>12 DEF WritePlan
  <2> QED  BY <1>1, <1>12, <2>1
<1> QED  BY <1>9, <1>10, <1>11, <1>12

LEMMA AssetPlans ==
  ASSUME NEW a, NEW c, IsAsset(a, c), NEW f, Shaped(a, c, f),
         NEW force \in BOOLEAN
  PROVE  LET p == AssetPlan(f, force)
         IN /\ p = Keep <=> Asset(f) = "managed-current"
            /\ p \notin {Keep, Refuse} =>
                 /\ Shaped(a, c, p)
                 /\ around.package => Asset(p) = "managed-current"
                 /\ \/ Content(f) \subseteq Content(p)
                    \/ force /\ Asset(f) = "edited-managed"
<1> DEFINE p == AssetPlan(f, force)
           asset == [Blank EXCEPT !.kind = "file", !.text = Shipped]
           state == Asset(f)
<1>1. Keep # Refuse  BY KeepAndRefuse
<1>2. Shipped \in {"current", "edited"}
        /\ (around.package => Shipped = "current")
  BY DEF Shipped
<1>3. asset \in Files
  BY <1>2, BlankIsShaped DEF Files, FileKinds
<1>4. /\ asset.kind = "file" /\ asset.text = Shipped
      /\ asset.groups = <<>> /\ asset.mine = {}
  BY DEF Blank
<1> HIDE DEF asset
<1>5. Shaped(a, c, asset) /\ asset \notin {Keep, Refuse}
  <2>1. \A i \in DOMAIN asset.groups : FALSE  BY <1>4
  <2> QED  BY <1>3, <1>4, <2>1, KeepAndRefuse DEF Shaped, Readable
<1>6. around.package => Asset(asset) = "managed-current"
  BY <1>2, <1>4 DEF Asset
<1>7. p = WritePlan(state, force, asset)  BY DEF AssetPlan, asset
<1>8. f \in Files  BY DEF Shaped
<1>9. /\ state = "absent" => f.kind = "absent"
      /\ state = "released-outdated" => f.kind = "file" /\ f.text = "old"
  BY <1>8, FieldsOfFiles DEF Asset, FileKinds
<1>10. CASE state \in {"absent", "released-outdated"}
  <2>1. p = asset  BY <1>7, <1>10 DEF WritePlan
  <2>2. f.kind = "absent" => Content(f) = {}  BY NothingInBlank
  <2>3. f.text = "old" => Content(f) = {}
    <3> SUFFICES ASSUME f.text = "old"
                 PROVE  Content(f) = {}
      OBVIOUS
    <3>1. f.groups = <<>> /\ f.mine = {}  BY DEF Shaped
    <3>2. \A i \in DOMAIN f.groups : FALSE  BY <3>1
    <3> QED  BY <3>1, <3>2, InContent
  <2> QED  BY <1>5, <1>6, <1>9, <1>10, <2>1, <2>2, <2>3
<1>11. CASE state = "managed-current"
  BY <1>1, <1>7, <1>11 DEF WritePlan
<1>12. CASE state = "edited-managed" /\ force
  <2>1. p = asset  BY <1>7, <1>12 DEF WritePlan
  <2> QED  BY <1>5, <1>6, <1>12, <2>1
<1>13. CASE /\ state \notin {"absent", "released-outdated", "managed-current"}
            /\ ~(state = "edited-managed" /\ force)
  <2>1. p = Refuse  BY <1>7, <1>13 DEF WritePlan
  <2> QED  BY <1>1, <1>13, <2>1
<1> QED  BY <1>10, <1>11, <1>12, <1>13

-----------------------------------------------------------------------------

\* The config of Codex: the feature is set, a rewritten hook loses its trust.
LEMMA ConfigPlans ==
  ASSUME NEW f, Shaped("codex", Second, f), NEW rewritten \in BOOLEAN
  PROVE  LET p == CodexConfigPlan(f, rewritten)
         IN /\ p # Refuse
            /\ p = Keep => /\ Readable(f) /\ f.features = "true"
                           /\ rewritten => f.trust = {}
            /\ p # Keep => /\ Shaped("codex", Second, p) /\ Readable(p)
                           /\ p.features = "true"
                           /\ rewritten => p.trust = {}
                           /\ ~rewritten => p.trust \subseteq f.trust
                           /\ Content(f) \ Hidden \subseteq Content(p)
                           /\ ~Readable(f) => Content(f) \subseteq Hidden
<1> DEFINE readable == f.kind \in {"file", "symlink"}
           base == IF readable THEN f ELSE Blank
           next == [base EXCEPT !.kind = "file", !.features = "true",
                                !.trust = IF rewritten THEN {} ELSE @]
           p == CodexConfigPlan(f, rewritten)
<1>1. f \in Files  BY DEF Shaped
<1>2. Shaped("codex", Second, base) /\ base \in Files
        /\ base.trust \subseteq f.trust
  BY <1>1, BlankIsShaped DEF Blank
<1>3. /\ p = Keep \/ p = next
      /\ p = Keep => Keep = next \/ (readable /\ next = [f EXCEPT !.kind = "file"])
  BY DEF CodexConfigPlan
<1> HIDE DEF base
<1>4. /\ next \in Files /\ next.kind = "file" /\ next.features = "true"
      /\ next.groups = base.groups /\ next.mine = base.mine
      /\ next.text = base.text
      /\ next.trust = IF rewritten THEN {} ELSE base.trust
  <2>1. {} \in SUBSET [at : Nat, of : Group]
          /\ base.trust \in SUBSET [at : Nat, of : Group]
    BY <1>2, FieldsOfFiles
  <2>2. /\ next.kind = "file" /\ next.features = "true"
        /\ next.groups = base.groups /\ next.mine = base.mine
        /\ next.text = base.text
        /\ next.trust = IF rewritten THEN {} ELSE base.trust
    BY <1>2 DEF Files
  <2>3. next \in Files  BY <1>2, <2>1 DEF Files, FileKinds
  <2> QED  BY <2>2, <2>3
<1>5. next = [f EXCEPT !.kind = "file"]
        => f.features = next.features /\ f.trust = next.trust
  BY <1>1 DEF Files
<1> HIDE DEF next
<1>6. next \notin {Keep, Refuse} /\ Keep # Refuse  BY <1>4, KeepAndRefuse
<1>7. Shaped("codex", Second, next)
  BY <1>2, <1>4 DEF Shaped, IsAsset, Readable, Reg, Second
<1>8. Content(next) = Content(base)  BY <1>4 DEF Content
<1>9. ~readable => Content(f) \subseteq Hidden
  <2>1. ~readable => f.groups = <<>> /\ f.mine \subseteq Hidden
    BY DEF Shaped, Readable
  <2>2. ~readable => \A i \in DOMAIN f.groups : FALSE  BY <2>1
  <2> QED  BY <2>1, <2>2, InContent
<1>10. Content(f) \ Hidden \subseteq Content(next)
  <2>1. readable => base = f  BY DEF base
  <2> QED  BY <1>8, <1>9, <2>1
<1>11. CASE p = Keep
  <2>1. readable /\ next = [f EXCEPT !.kind = "file"]  BY <1>3, <1>6, <1>11
  <2>2. base = f  BY <2>1 DEF base
  <2> QED  BY <1>4, <1>5, <1>6, <1>11, <2>1, <2>2 DEF Readable
<1>12. CASE p = next
  BY <1>2, <1>4, <1>6, <1>7, <1>9, <1>10, <1>12 DEF Readable
<1> QED  BY <1>3, <1>11, <1>12

LEMMA ConfigIsKept ==
  ASSUME NEW f \in Files, Readable(f)
  PROVE  CodexConfigPlan(f, FALSE) = Keep <=> f.features = "true"
<1> DEFINE next == [f EXCEPT !.kind = "file", !.features = "true",
                             !.trust = @]
           same == [f EXCEPT !.kind = "file"]
<1>1. CodexConfigPlan(f, FALSE) = IF next = same THEN Keep ELSE next
  BY DEF CodexConfigPlan, Readable
<1>2. next.kind = "file"  BY DEF Files
<1>3. next # Keep  BY <1>2, KeepAndRefuse
<1>4. f.features # "true" => next # same
  <2>1. next.features = "true" /\ same.features = f.features  BY DEF Files
  <2> QED  BY <2>1
<1>5. f.features = "true" => next = same
  <2> SUFFICES ASSUME f.features = "true" PROVE next = same  OBVIOUS
  <2>1. next \in Files /\ same \in Files
    BY DEF Files, FileKinds
  <2>2. /\ next.kind = same.kind /\ next.groups = same.groups
        /\ next.head = same.head /\ next.text = same.text
        /\ next.features = same.features /\ next.trust = same.trust
        /\ next.mine = same.mine
    BY DEF Files
  <2> HIDE DEF next, same
  <2> QED  BY <2>1, <2>2 DEF Files
<1> HIDE DEF next, same
<1> QED  BY <1>1, <1>3, <1>4, <1>5

-----------------------------------------------------------------------------
(* Both planners of whichever agent it is.                                   *)

LEMMA Pairs ==
  /\ Pair = {1, 2} /\ Reg \in Pair /\ Second \in Pair /\ Reg # Second
  /\ \A x, y : /\ DOMAIN <<x, y>> = Pair
               /\ <<x, y>>[Reg] = x /\ <<x, y>>[Second] = y
BY DEF Pair, Reg, Second

\* The plan for a registration is well formed, current and spares the user.
LEMMA RegPlans ==
  ASSUME agent \in Agents, NEW f, Shaped(agent, Reg, f),
         NEW force \in BOOLEAN
  PROVE  LET p == RegPlan(f, force)
         IN /\ p = Keep <=> RegState(f) = "managed-current"
            /\ p \notin {Keep, Refuse} =>
                 /\ Shaped(agent, Reg, p)
                 /\ around.package => RegState(p) = "managed-current"
                 /\ \/ Content(f) \ Excepted(Reg) \subseteq Content(p)
                    \/ /\ force /\ agent # "codex"
                       /\ RegState(f) = "edited-managed"
<1>1. CASE agent = "claude"
  BY <1>1, ClaudePlans DEF RegPlan, RegState
<1>2. CASE agent = "codex"
  BY <1>2, CodexPlans DEF RegPlan, RegState
<1>3. CASE agent = "cursor"
  <2>1. Hidden \cup {UserItem} \subseteq Excepted(Reg)
    BY <1>3 DEF Excepted
  <2> QED  BY <1>3, <2>1, CursorPlans DEF RegPlan, RegState
<1>4. CASE agent = "grok"
  BY <1>4, GrokPlans DEF RegPlan, RegState
<1>5. CASE agent = "opencode"
  <2>1. IsAsset(agent, Reg)  BY <1>5 DEF IsAsset
  <2> QED  BY <1>5, <2>1, AssetPlans DEF RegPlan, RegState
<1> QED  BY <1>1, <1>2, <1>3, <1>4, <1>5 DEF Agents

LEMMA SecondPlans ==
  ASSUME agent \in Agents, NEW fs, Shaped(agent, Second, fs[Second]),
         NEW force \in BOOLEAN
  PROVE  LET p == SecondPlan(fs, force)
             f == fs[Second]
         IN /\ agent # "codex" => (p = Keep <=> Asset(f) = "managed-current")
            /\ agent = "codex" => p # Refuse
            /\ agent = "codex" /\ p = Keep =>
                 /\ Readable(f) /\ f.features = "true"
                 /\ CodexPlan(fs[Reg]) # Keep => f.trust = {}
            /\ p \notin {Keep, Refuse} =>
                 /\ Shaped(agent, Second, p)
                 /\ \/ Content(f) \ Excepted(Second) \subseteq Content(p)
                    \/ /\ force /\ agent # "codex"
                       /\ Asset(f) = "edited-managed"
            /\ agent # "codex" /\ p \notin {Keep, Refuse} /\ around.package =>
                 Asset(p) = "managed-current"
            /\ agent = "codex" /\ p \notin {Keep, Refuse} =>
                 /\ Readable(p) /\ p.features = "true"
                 /\ CodexPlan(fs[Reg]) # Keep => p.trust = {}
                 /\ CodexPlan(fs[Reg]) = Keep => p.trust \subseteq f.trust
                 /\ ~Readable(f) => Content(f) \subseteq Excepted(Second)
<1> DEFINE p == SecondPlan(fs, force)
           f == fs[Second]
<1>1. CASE agent = "codex"
  <2> DEFINE rewritten == CodexPlan(fs[Reg]) # Keep
  <2>1. p = CodexConfigPlan(f, rewritten)  BY <1>1 DEF SecondPlan
  <2>2. Excepted(Second) = Hidden  BY <1>1 DEF Excepted, Reg, Second
  <2>3. rewritten \in BOOLEAN  OBVIOUS
  <2>4. Shaped("codex", Second, f)  BY <1>1
  <2> HIDE DEF f, p, rewritten
  <2>5. /\ p # Refuse
        /\ p = Keep => /\ Readable(f) /\ f.features = "true"
                       /\ rewritten => f.trust = {}
        /\ p # Keep => /\ Shaped("codex", Second, p) /\ Readable(p)
                       /\ p.features = "true"
                       /\ rewritten => p.trust = {}
                       /\ ~rewritten => p.trust \subseteq f.trust
                       /\ Content(f) \ Hidden \subseteq Content(p)
                       /\ ~Readable(f) => Content(f) \subseteq Hidden
    BY <2>1, <2>3, <2>4, ConfigPlans
  <2> QED  BY <1>1, <2>2, <2>5 DEF f, p, rewritten
<1>2. CASE agent # "codex"
  <2>1. p = AssetPlan(f, force)  BY <1>2 DEF SecondPlan
  <2>2. IsAsset(agent, Second)  BY <1>2 DEF IsAsset, Reg, Second
  <2> QED  BY <1>2, <2>1, <2>2, AssetPlans
<1> QED  BY <1>1, <1>2

\* A second file that leaves a run nothing to do, for the agent a.
SecondOk(a, f) == IF a = "codex" THEN Readable(f) /\ f.features = "true"
                  ELSE Asset(f) = "managed-current"

LEMMA PlansArePairs ==
  ASSUME NEW fs, NEW force
  PROVE  LET p == Plans(fs, force)
         IN /\ DOMAIN p = Pair /\ p[Reg] = RegPlan(fs[Reg], force)
            /\ p[Second] = SecondPlan(fs, force)
            /\ p = Nothing <=> \A c \in Pair : p[c] = Keep
            /\ Refused(p) <=> \E c \in Pair : p[c] = Refuse
<1> DEFINE x == RegPlan(fs[Reg], force)
           y == SecondPlan(fs, force)
           p == Plans(fs, force)
<1>1. p = <<x, y>>  BY DEF Plans
<1>2. p[Reg] = x /\ p[Second] = y /\ DOMAIN p = Pair  BY <1>1, Pairs
<1> HIDE DEF x, y, p
<1>3. p = Nothing <=> x = Keep /\ y = Keep  BY <1>1 DEF Nothing
<1>4. p = Nothing <=> \A c \in Pair : p[c] = Keep
  BY <1>2, <1>3 DEF Pair
<1>5. Refused(p) <=> \E c \in Pair : p[c] = Refuse  BY DEF Refused, Pair
<1> QED  BY <1>2, <1>4, <1>5 DEF x, y, p

LEMMA NothingToDo ==
  ASSUME agent \in Agents, NEW fs, Shaped(agent, Reg, fs[Reg]),
         Shaped(agent, Second, fs[Second])
  PROVE  Plans(fs, FALSE) = Nothing
           <=> RegState(fs[Reg]) = "managed-current"
                 /\ SecondOk(agent, fs[Second])
<1> DEFINE x == RegPlan(fs[Reg], FALSE)
           y == SecondPlan(fs, FALSE)
<1>1. Plans(fs, FALSE) = Nothing <=> x = Keep /\ y = Keep
  BY PlansArePairs DEF Pair
<1>2. FALSE \in BOOLEAN  OBVIOUS
<1>3. x = Keep <=> RegState(fs[Reg]) = "managed-current"
  BY <1>2, RegPlans
<1>4. agent # "codex" => (y = Keep <=> SecondOk(agent, fs[Second]))
  BY <1>2, SecondPlans DEF SecondOk
<1>5. agent = "codex" /\ y = Keep => SecondOk(agent, fs[Second])
  BY <1>2, SecondPlans DEF SecondOk
<1>6. agent = "codex" /\ x = Keep /\ SecondOk(agent, fs[Second]) => y = Keep
  <2> SUFFICES ASSUME agent = "codex", x = Keep,
                      SecondOk(agent, fs[Second])
               PROVE  y = Keep
    OBVIOUS
  <2>1. CodexPlan(fs[Reg]) = Keep  BY DEF RegPlan
  <2>2. y = CodexConfigPlan(fs[Second], FALSE)  BY <2>1 DEF SecondPlan
  <2>3. fs[Second] \in Files  BY DEF Shaped
  <2> QED  BY <2>2, <2>3, ConfigIsKept DEF SecondOk
<1> QED  BY <1>1, <1>3, <1>4, <1>5, <1>6

LEMMA AlikeFiles ==
  ASSUME NEW a, NEW c, NEW f \in Files, NEW g \in Files, Alike(a, c, f, g)
  PROVE  /\ f.kind = g.kind /\ f.features = g.features
         /\ a # "codex" \/ c = Reg => f = g
<1> DEFINE h(x) == [x EXCEPT !.trust = {}]
<1>1. \A x \in Files : h(x).kind = x.kind /\ h(x).features = x.features
  BY DEF Files
<1> HIDE DEF h
<1>2. h(f) = h(g) \/ f = g  BY DEF Alike, h
<1>3. f.kind = g.kind /\ f.features = g.features  BY <1>1, <1>2
<1>4. a # "codex" \/ c = Reg => f = g  BY Pairs DEF Alike
<1> QED  BY <1>3, <1>4

\* Files that match what was kept or written leave the next run nothing.
LEMMA WrittenIsCurrent ==
  ASSUME agent \in Agents, around.package,
         NEW fs, NEW gs, NEW force \in BOOLEAN,
         \A c \in Pair : Shaped(agent, c, fs[c]) /\ Shaped(agent, c, gs[c]),
         ~Refused(Plans(fs, force)),
         \A c \in Pair : Alike(agent, c, gs[c],
           IF Plans(fs, force)[c] = Keep THEN fs[c] ELSE Plans(fs, force)[c])
  PROVE  Plans(gs, FALSE) = Nothing
<1> DEFINE p == Plans(fs, force)
           h(c) == IF p[c] = Keep THEN fs[c] ELSE p[c]
<1>1. /\ p[Reg] = RegPlan(fs[Reg], force) /\ p[Second] = SecondPlan(fs, force)
      /\ p[Reg] # Refuse /\ p[Second] # Refuse
  BY PlansArePairs, Pairs
<1>2. /\ Shaped(agent, Reg, fs[Reg]) /\ Shaped(agent, Second, fs[Second])
      /\ Shaped(agent, Reg, gs[Reg]) /\ Shaped(agent, Second, gs[Second])
  BY Pairs
<1>3. Alike(agent, Reg, gs[Reg], h(Reg))
        /\ Alike(agent, Second, gs[Second], h(Second))
  BY Pairs
<1> HIDE DEF p
<1>4. Shaped(agent, Reg, h(Reg)) /\ RegState(h(Reg)) = "managed-current"
  BY <1>1, <1>2, RegPlans
<1>5. Shaped(agent, Second, h(Second)) /\ SecondOk(agent, h(Second))
  <2>1. CASE p[Second] = Keep
    BY <1>1, <1>2, <2>1, SecondPlans DEF SecondOk
  <2>2. CASE p[Second] # Keep
    BY <1>1, <1>2, <2>2, SecondPlans DEF SecondOk
  <2> QED  BY <2>1, <2>2
<1> HIDE DEF h
<1>6. /\ gs[Reg] \in Files /\ gs[Second] \in Files
      /\ h(Reg) \in Files /\ h(Second) \in Files
  BY <1>2, <1>4, <1>5 DEF Shaped
<1>7. RegState(gs[Reg]) = "managed-current"
  BY <1>3, <1>4, <1>6, AlikeFiles
<1>8. SecondOk(agent, gs[Second])
  BY <1>3, <1>5, <1>6, AlikeFiles DEF SecondOk, Readable
<1> QED  BY <1>2, <1>7, <1>8, NothingToDo

\* What the rollback takes for new held nothing, but for a Cursor hook.
LEMMA AbsentHeldNothing ==
  ASSUME agent \in Agents, NEW c \in Pair, Shaped(agent, Reg, seen[Reg]),
         Shaped(agent, Second, seen[Second]), forced \in BOOLEAN,
         plan = Plans(seen, forced), ~Refused(plan), c \in Writes, WasAbsent(c)
  PROVE  \/ agent = "cursor" /\ c = Reg
         \/ Content(seen[c]) \subseteq Excepted(c)
<1> DEFINE f == seen[c]
<1>1. Shaped(agent, c, f) /\ f \in Files  BY DEF Pair, Shaped
<1>2. plan[c] \notin {Keep, Refuse}
  BY PlansArePairs DEF Writes, Pair
<1>3. CASE agent = "codex" /\ c = Reg
  <2>1. plan[Reg] = CodexPlan(seen[Reg])
    BY <1>3, PlansArePairs DEF RegPlan
  <2>2. f.kind \notin {"file", "symlink"}  BY <1>3 DEF WasAbsent
  <2>3. Content(f) = {}
    BY <1>1, <1>2, <1>3, <2>1, <2>2, CodexPlans
  <2> QED  BY <2>3
<1>4. CASE agent = "codex" /\ c = Second
  <2>1. plan[Second] = SecondPlan(seen, forced)  BY PlansArePairs
  <2>2. ~Readable(f)  BY <1>4 DEF WasAbsent, Readable
  <2> QED  BY <1>1, <1>2, <1>4, <2>1, <2>2, SecondPlans
<1>5. CASE agent # "codex" /\ ~(agent = "cursor" /\ c = Reg)
  <2>1. c = Reg => f.kind = "absent"  BY <1>5 DEF WasAbsent
  <2>2. c = Second => Asset(f) = "absent"
    BY <1>5, Pairs DEF WasAbsent
  <2>3. Asset(f) = "absent" => f.kind = "absent"
    BY <1>1, FieldsOfFiles DEF Asset, FileKinds
  <2>4. f.kind = "absent"  BY <2>1, <2>2, <2>3 DEF Pair
  <2>5. Content(f) = {}  BY <1>1, <2>4, NothingInBlank
  <2> QED  BY <2>5
<1> QED  BY <1>3, <1>4, <1>5 DEF Pair

-----------------------------------------------------------------------------
(* The invariant, action by action.                                          *)

LEMMA HooksStart == AgentInit => HooksInv
<1> SUFFICES ASSUME AgentInit
             PROVE  HooksInv
  OBVIOUS
<1>1. /\ agent \in Agents /\ around \in Surroundings
      /\ file \in Docs[agent] \X Seconds[agent]
      /\ \A t \in file[Second].trust : /\ t.at \in DOMAIN file[Reg].groups
                                      /\ t.of = file[Reg].groups[t.at]
      /\ kept = <<{}, {}>>
      /\ phase = "idle" /\ forced = FALSE
      /\ seen = <<Blank, Blank>> /\ unread = {}
      /\ prior = <<Blank, Blank>> /\ committed = {} /\ answer = "none"
      /\ owed = <<Content(file[Reg]), Content(file[Second])>>
  BY DEF AgentInit
<1>2. DOMAIN file = Pair /\ file[Reg] \in Docs[agent]
        /\ file[Second] \in Seconds[agent]
  <2>1. PICK x \in Docs[agent], y \in Seconds[agent] : file = <<x, y>>
    BY <1>1
  <2> QED  BY <2>1, Pairs
<1>3. Shaped(agent, Reg, file[Reg]) /\ Shaped(agent, Second, file[Second])
  BY <1>1, <1>2, HooksAssumption
<1>4. /\ DOMAIN owed = Pair /\ owed[Reg] = Content(file[Reg])
      /\ owed[Second] = Content(file[Second])
  BY <1>1, Pairs
<1>5. \A c \in Pair : owed[c] \subseteq Items \cup {UserItem}
  <2>1. file[Reg] \in Files /\ file[Second] \in Files  BY <1>3 DEF Shaped
  <2> QED  BY <1>4, <2>1, ContentIsTyped DEF Pair
<1>6. Shapes
  <2>1. DOMAIN seen = Pair /\ DOMAIN prior = Pair /\ DOMAIN kept = Pair
    BY <1>1, Pairs
  <2>2. /\ seen[Reg] = Blank /\ seen[Second] = Blank
        /\ prior[Reg] = Blank /\ prior[Second] = Blank
    BY <1>1, Pairs
  <2>3. \A c \in Pair : /\ Shaped(agent, c, file[c])
                        /\ Shaped(agent, c, seen[c])
                        /\ Shaped(agent, c, prior[c])
    BY <1>3, <2>2, BlankIsShaped DEF Pair
  <2>4. \A c \in Pair : kept[c] \subseteq Items \cup {UserItem}
    BY <1>1, Pairs DEF Pair
  <2> QED  BY <1>1, <1>2, <1>4, <1>5, <2>1, <2>3, <2>4 DEF Shapes
<1>7. RunPhase  BY <1>1 DEF RunPhase, Window
<1>8. Held
  <2>1. \A c \in {Reg, Second} : owed[c] = Content(file[c])
    BY <1>4
  <2>2. phase \notin Window /\ phase # "commit"  BY <1>1 DEF Window
  <2> QED  BY <2>1, <2>2 DEF Held, OthersKept
<1>9. Undisturbed
  BY <1>1 DEF Undisturbed, OkIsCurrent, Window
<1>10. InSync  BY <1>1 DEF InSync, Approved, Window
<1> QED  BY <1>6, <1>7, <1>8, <1>9, <1>10 DEF HooksInv

\* What is left out never shrinks.
LEMMA ExceptedGrows ==
  ASSUME agent' = agent, hurt => hurt', NEW c
  PROVE  Excepted(c) \subseteq Excepted(c)'
BY DEF Excepted

\* The plan of a run does not depend on the files as they are now.
LEMMA PlansStay ==
  ASSUME agent' = agent, around' = around
  PROVE  \A fs, force : Plans(fs, force)' = Plans(fs, force)
BY DEF Plans, RegPlan, SecondPlan, AssetPlan, Shipped

LEMMA InvokeKeeps ==
  ASSUME HooksInv, NEW force \in BOOLEAN, Invoke(force)
  PROVE  HooksInv'
<1>1. Shapes /\ RunPhase /\ Held /\ Undisturbed /\ InSync  BY DEF HooksInv
<1>2. /\ phase = "idle" /\ forced' = force
      /\ seen' = <<Blank, Blank>> /\ unread' = {Reg, Second}
      /\ prior' = <<Blank, Blank>> /\ committed' = {}
      /\ \/ phase' = "idle" /\ answer' = "failed"
         \/ phase' = "read" /\ answer' = "none"
      /\ agent' = agent /\ around' = around /\ file' = file /\ kept' = kept
      /\ owed' = owed /\ hurt' = hurt
  BY DEF Invoke, Answer, DiskUnchanged
<1>3. Shapes'
  <2>1. /\ DOMAIN seen' = Pair /\ DOMAIN prior' = Pair
        /\ seen'[Reg] = Blank /\ seen'[Second] = Blank
        /\ prior'[Reg] = Blank /\ prior'[Second] = Blank
    BY <1>2, Pairs
  <2>2. \A c \in Pair : /\ Shaped(agent, c, seen'[c])
                        /\ Shaped(agent, c, prior'[c])
    BY <2>1, BlankIsShaped DEF Pair
  <2> QED  BY <1>1, <1>2, <2>1, <2>2 DEF Shapes
<1>4. RunPhase'  BY <1>2 DEF RunPhase, Window, Pair
<1>5. Held'
  <2>1. OthersKept'
    <3>1. \A c \in {Reg, Second} : Excepted(c) \subseteq Excepted(c)'
      BY <1>2, ExceptedGrows
    <3> QED  BY <1>1, <1>2, <3>1 DEF Held, OthersKept
  <2>2. Pair \ unread' = {} /\ phase' # "commit"  BY <1>2 DEF Pair
  <2> QED  BY <2>1, <2>2 DEF Held
<1>6. Undisturbed'
  <2>1. Pair \ unread' = {} /\ answer' # "ok"  BY <1>2 DEF Pair
  <2> QED  BY <2>1 DEF Undisturbed, OkIsCurrent
<1>7. InSync'  BY <1>1, <1>2 DEF InSync
<1> QED  BY <1>3, <1>4, <1>5, <1>6, <1>7 DEF HooksInv

LEMMA ReadKeeps ==
  ASSUME HooksInv, NEW c \in Pair, Read(c)
  PROVE  HooksInv'
<1>1. Shapes /\ RunPhase /\ Held /\ Undisturbed /\ InSync  BY DEF HooksInv
<1>2. /\ phase = "read" /\ c \in unread
      /\ seen' = [seen EXCEPT ![c] = file[c]]
      /\ unread' = unread \ {c}
      /\ agent' = agent /\ around' = around /\ file' = file /\ kept' = kept
      /\ owed' = owed /\ hurt' = hurt /\ phase' = phase /\ forced' = forced
      /\ prior' = prior /\ committed' = committed /\ answer' = answer
      /\ clean' = clean
  BY DEF Read, DiskUnchanged
<1>3. /\ DOMAIN seen' = Pair /\ seen'[c] = file[c]
      /\ \A d \in Pair : d # c => seen'[d] = seen[d]
  BY <1>1, <1>2 DEF Shapes
<1>4. committed = {}  BY <1>1, <1>2 DEF RunPhase
<1>5. \A d \in Pair : Excepted(d) \subseteq Excepted(d)'
  BY <1>2, ExceptedGrows
<1>6. OthersKept  BY <1>1 DEF Held
<1>7. Shapes'
  <2>1. \A d \in Pair : Shaped(agent, d, seen'[d])
    BY <1>1, <1>3 DEF Shapes
  <2> QED  BY <1>1, <1>2, <1>3, <2>1 DEF Shapes
<1>8. RunPhase'  BY <1>1, <1>2, <1>4 DEF RunPhase, Window
<1>9. Held'
  <2>1. OthersKept'  BY <1>2, <1>5, <1>6 DEF OthersKept, Pair
  <2>2. \A d \in Pair \ unread' :
          owed[d] \ Excepted(d) \subseteq Content(seen'[d]) \cup kept[d]
    <3> SUFFICES ASSUME NEW d \in Pair, d \notin unread'
                 PROVE  owed[d] \ Excepted(d) \subseteq
                          Content(seen'[d]) \cup kept[d]
      OBVIOUS
    <3>1. CASE d = c
      BY <1>3, <1>6, <3>1 DEF OthersKept, Pair
    <3>2. CASE d # c
      BY <1>1, <1>2, <1>3, <3>2 DEF Held, Window
    <3> QED  BY <3>1, <3>2
  <2> QED  BY <1>2, <1>5, <2>1, <2>2 DEF Held
<1>10. Undisturbed'
  <2>1. OkIsCurrent'  BY <1>2 DEF OkIsCurrent
  <2>2. ASSUME clean, NEW d \in Pair, d \notin unread'
        PROVE  Alike(agent, d, file[d], seen'[d])
    <3>1. CASE d = c
      BY <1>3, <3>1 DEF Alike
    <3>2. CASE d # c
      BY <1>1, <1>2, <1>3, <1>4, <2>2, <3>2 DEF Undisturbed, Window
    <3> QED  BY <3>1, <3>2
  <2> QED  BY <1>2, <1>4, <2>1, <2>2 DEF Undisturbed
<1>11. InSync'
  BY <1>1, <1>2, <1>3, <1>4, Pairs DEF InSync, Window
<1> QED  BY <1>7, <1>8, <1>9, <1>10, <1>11 DEF HooksInv

LEMMA DecideKeeps ==
  ASSUME HooksInv, Decide
  PROVE  HooksInv'
<1>1. Shapes /\ RunPhase /\ Held /\ Undisturbed /\ InSync  BY DEF HooksInv
<1>2. /\ phase = "read" /\ unread = {} /\ unread' = unread
      /\ \/ phase' = "idle" /\ answer' = "failed"
         \/ /\ Plans(seen, forced) = Nothing
            /\ phase' = "idle" /\ answer' = "ok"
         \/ /\ ~Refused(Plans(seen, forced)) /\ Plans(seen, forced) # Nothing
            /\ phase' = "stage" /\ answer' = answer
            /\ plan' = Plans(seen, forced)
      /\ agent' = agent /\ around' = around /\ file' = file /\ kept' = kept
      /\ owed' = owed /\ hurt' = hurt /\ forced' = forced /\ seen' = seen
      /\ prior' = prior /\ committed' = committed /\ clean' = clean
  BY DEF Decide, Answer, DiskUnchanged
<1>3. committed = {} /\ answer = "none" /\ forced \in BOOLEAN
  BY <1>1, <1>2 DEF RunPhase, Window
<1>4. \A d \in Pair : Excepted(d) \subseteq Excepted(d)'
  BY <1>2, ExceptedGrows
<1>5. Plans(seen, forced)' = Plans(seen, forced)  BY <1>2, PlansStay
<1>6. Shapes'  BY <1>1, <1>2 DEF Shapes
<1>7. RunPhase'
  <2>1. plan' = Plans(seen, forced) /\ ~Refused(Plans(seen, forced))
          => ~Refused(plan)'
    BY DEF Refused
  <2>2. plan' = Plans(seen, forced) => plan' = Plans(seen, forced)'
    BY <1>5
  <2>3. Nothing' = Nothing  BY DEF Nothing, Keep, Blank
  <2> QED  BY <1>1, <1>2, <1>3, <2>1, <2>2, <2>3 DEF RunPhase, Window
<1>8. Held'
  <2>1. OthersKept'  BY <1>1, <1>2, <1>4 DEF Held, OthersKept, Pair
  <2>2. phase' # "commit"  BY <1>2
  <2>3. \A d \in Pair : owed[d] \ Excepted(d) \subseteq
                          Content(seen[d]) \cup kept[d]
    BY <1>1, <1>2 DEF Held, Window
  <2> QED  BY <1>2, <1>4, <2>1, <2>2, <2>3 DEF Held
<1>9. Undisturbed'
  <2>1. clean => \A d \in Pair : Alike(agent, d, file[d], seen[d])
    BY <1>1, <1>2, <1>3 DEF Undisturbed, Window
  <2>2. OkIsCurrent'
    <3> SUFFICES ASSUME answer' = "ok", clean, around.package
                 PROVE  Plans(file, FALSE)' = Nothing
      BY <1>2 DEF OkIsCurrent, Nothing, Keep, Blank
    <3>1. Plans(seen, forced) = Nothing  BY <1>2, <1>3
    <3>2. ~Refused(Plans(seen, forced)) /\
          \A d \in Pair : Plans(seen, forced)[d] = Keep
      <4>1. \A d \in Pair : Plans(seen, forced)[d] = Keep
        BY <3>1, PlansArePairs
      <4> QED  BY <4>1, PlansArePairs, KeepAndRefuse
    <3>3. Plans(file, FALSE) = Nothing
      BY <1>1, <1>3, <2>1, <3>2, WrittenIsCurrent DEF Shapes
    <3> QED  BY <1>2, <3>3, PlansStay
  <2> QED  BY <1>2, <1>3, <2>1, <2>2 DEF Undisturbed
<1>10. InSync'  BY <1>1, <1>2 DEF InSync, Window
<1> QED  BY <1>6, <1>7, <1>8, <1>9, <1>10 DEF HooksInv

LEMMA StageKeeps ==
  ASSUME HooksInv, Stage
  PROVE  HooksInv'
<1>1. Shapes /\ RunPhase /\ Held /\ Undisturbed /\ InSync  BY DEF HooksInv
<1>2. /\ phase = "stage" /\ prior' = file
      /\ kept' = [c \in {Reg, Second} |->
           IF BackedUp(c) THEN kept[c] \cup Content(file[c]) ELSE kept[c]]
      /\ \/ phase' = "commit" /\ answer' = answer
         \/ phase' = "idle" /\ answer' = "failed"
      /\ agent' = agent /\ around' = around /\ file' = file
      /\ forced' = forced /\ seen' = seen /\ unread' = unread /\ plan' = plan
      /\ committed' = committed
  BY DEF Stage, Answer
<1>3. owed' = owed /\ clean' = clean /\ hurt' = hurt
  BY DEF Stage, agentHistory
<1>4. /\ committed = {} /\ answer = "none" /\ forced \in BOOLEAN /\ unread = {}
      /\ plan = Plans(seen, forced) /\ ~Refused(plan) /\ plan # Nothing
  BY <1>1, <1>2 DEF RunPhase, Window
<1>5. \A d \in Pair : Excepted(d) \subseteq Excepted(d)'
  BY <1>2, <1>3, ExceptedGrows
<1>6. Plans(seen, forced)' = Plans(seen, forced)  BY <1>2, PlansStay
<1>7. /\ DOMAIN kept' = Pair
      /\ \A c \in Pair : kept'[c] =
           IF BackedUp(c) THEN kept[c] \cup Content(file[c]) ELSE kept[c]
  BY <1>2 DEF Pair
<1>8. OthersKept  BY <1>1 DEF Held
<1>9. Shapes'
  <2>1. \A c \in Pair : kept'[c] \subseteq Items \cup {UserItem}
    <3>1. \A c \in Pair : file[c] \in Files  BY <1>1 DEF Shapes, Shaped
    <3> QED  BY <1>1, <1>7, <3>1, ContentIsTyped DEF Shapes
  <2> QED  BY <1>1, <1>2, <1>3, <1>7, <2>1 DEF Shapes
<1>10. RunPhase'
  <2>1. Refused(plan)' <=> Refused(plan)  BY <1>2 DEF Refused
  <2>2. Writes' = Writes  BY <1>2 DEF Writes
  <2>3. Nothing' = Nothing  BY DEF Nothing, Keep, Blank
  <2>4. Writes # {}  BY <1>4, PlansArePairs DEF Writes, Pair
  <2> QED  BY <1>1, <1>2, <1>4, <1>6, <2>1, <2>2, <2>3, <2>4
        DEF RunPhase, Window
<1>11. Held'
  <2>1. OthersKept'
    BY <1>2, <1>3, <1>5, <1>7, <1>8 DEF OthersKept, Pair
  <2>2. \A d \in Pair : owed[d] \ Excepted(d) \subseteq
                          Content(seen[d]) \cup kept[d]
    BY <1>1, <1>2, <1>4 DEF Held, Window
  <2>3. \A d \in Pair : kept[d] \subseteq kept'[d]  BY <1>7
  <2>4. \A d \in Pair : owed[d] \ Excepted(d) \subseteq
                          Content(file[d]) \cup kept'[d]
    BY <1>8, <2>3 DEF OthersKept, Pair
  <2>5. \A d \in Pair : d \in Writes =>
          \/ Content(seen[d]) \ Excepted(d) \subseteq Content(plan[d])
          \/ BackedUp(d)
    <3>1. /\ agent \in Agents /\ Shaped(agent, Reg, seen[Reg])
          /\ Shaped(agent, Second, seen[Second])
      BY <1>1, Pairs DEF Shapes
    <3>2. /\ plan[Reg] = RegPlan(seen[Reg], forced) /\ plan[Reg] # Refuse
          /\ plan[Second] = SecondPlan(seen, forced) /\ plan[Second] # Refuse
      BY <1>4, PlansArePairs, Pairs
    <3>3. Reg \in Writes =>
            \/ Content(seen[Reg]) \ Excepted(Reg) \subseteq Content(plan[Reg])
            \/ BackedUp(Reg)
      <4>1. Reg \in Writes => plan[Reg] # Keep  BY DEF Writes
      <4> QED  BY <1>4, <3>1, <3>2, <4>1, RegPlans DEF BackedUp
    <3>4. Second \in Writes =>
            \/ Content(seen[Second]) \ Excepted(Second)
                 \subseteq Content(plan[Second])
            \/ BackedUp(Second)
      <4>1. Second \in Writes => plan[Second] # Keep  BY DEF Writes
      <4> QED  BY <1>4, <3>1, <3>2, <4>1, SecondPlans, Pairs DEF BackedUp
    <3> QED  BY <3>3, <3>4 DEF Pair
  <2>6. Writes \subseteq Pair /\ Writes' = Writes
    BY <1>2 DEF Writes, Pair
  <2>7. \A d \in Writes : owed[d] \ Excepted(d) \subseteq
                            Content(plan[d]) \cup kept'[d]
    <3> SUFFICES ASSUME NEW d \in Writes
                 PROVE  owed[d] \ Excepted(d) \subseteq
                          Content(plan[d]) \cup kept'[d]
      OBVIOUS
    <3>1. CASE BackedUp(d)
      <4>1. Content(file[d]) \subseteq kept'[d]  BY <1>7, <2>6, <3>1
      <4> QED  BY <2>4, <2>6, <4>1
    <3>2. CASE Content(seen[d]) \ Excepted(d) \subseteq Content(plan[d])
      BY <2>2, <2>3, <2>6, <3>2
    <3> QED  BY <2>5, <2>6, <3>1, <3>2
  <2>8. \A d \in Pair : owed[d] \ Excepted(d) \subseteq
                          Content(seen[d]) \cup kept'[d]
    BY <2>2, <2>3
  <2>9. \A d \in Pair \ unread' : owed'[d] \ Excepted(d)' \subseteq
                                    Content(seen'[d]) \cup kept'[d]
    BY <1>2, <1>3, <1>5, <2>8
  <2>10. \A d \in Writes' : owed'[d] \ Excepted(d)' \subseteq
                              Content(plan'[d]) \cup kept'[d]
    BY <1>2, <1>3, <1>5, <2>6, <2>7
  <2>11. \A d \in Pair : owed'[d] \ Excepted(d)' \subseteq
                           Content(prior'[d]) \cup kept'[d]
    BY <1>2, <1>3, <1>5, <2>4
  <2> QED  BY <2>1, <2>9, <2>10, <2>11 DEF Held
<1>12. Undisturbed'
  <2>1. OkIsCurrent'  BY <1>2, <1>4 DEF OkIsCurrent
  <2> QED  BY <1>1, <1>2, <1>3, <2>1 DEF Undisturbed, Window
<1>13. InSync'
  <2>1. agent = "codex" /\ ~hurt =>
          /\ Approved(file[Reg], file[Second].trust)
          /\ file[Second].trust = seen[Second].trust
    BY <1>1, <1>2, <1>4 DEF InSync, Window
  <2> QED  BY <1>2, <1>3, <1>4, <2>1 DEF InSync
<1> QED  BY <1>9, <1>10, <1>11, <1>12, <1>13 DEF HooksInv

LEMMA DiesKeeps ==
  ASSUME HooksInv, Dies
  PROVE  HooksInv'
<1>1. Shapes /\ RunPhase /\ Held /\ Undisturbed /\ InSync  BY DEF HooksInv
<1>2. /\ phase' = "idle" /\ answer' = "none"
      /\ hurt' = (hurt \/ Torn) /\ phase \in {"stage", "commit"}
      /\ agent' = agent /\ around' = around /\ file' = file /\ kept' = kept
      /\ owed' = owed /\ forced' = forced /\ seen' = seen
      /\ unread' = unread /\ prior' = prior /\ committed' = committed
  BY DEF Dies, DiskUnchanged
<1>3. \A d \in Pair : Excepted(d) \subseteq Excepted(d)'
  BY <1>2, ExceptedGrows
<1>4. Shapes'  BY <1>1, <1>2 DEF Shapes
<1>5. RunPhase'  BY <1>1, <1>2 DEF RunPhase, Window
<1>6. Held'
  <2>1. OthersKept'  BY <1>1, <1>2, <1>3 DEF Held, OthersKept, Pair
  <2> QED  BY <1>2, <2>1 DEF Held, Window
<1>7. Undisturbed'  BY <1>2 DEF Undisturbed, OkIsCurrent, Window
<1>8. InSync'
  <2>1. ~hurt' => ~hurt /\ ~Torn  BY <1>2
  <2> QED  BY <1>1, <1>2, <2>1 DEF InSync, Window
<1> QED  BY <1>4, <1>5, <1>6, <1>7, <1>8 DEF HooksInv

LEMMA CommitKeeps ==
  ASSUME HooksInv, NEW c \in Pair, Commit(c)
  PROVE  HooksInv'
<1>1. Shapes /\ RunPhase /\ Held /\ Undisturbed /\ InSync  BY DEF HooksInv
<1>2. /\ phase = "commit" /\ NextToCommit(c)
      /\ file' = [file EXCEPT ![c] = plan[c]]
      /\ committed' = committed \cup {c}
      /\ phase' = phase /\ answer' = answer
      /\ agent' = agent /\ around' = around /\ kept' = kept
      /\ forced' = forced /\ seen' = seen /\ unread' = unread /\ plan' = plan
      /\ prior' = prior
  BY DEF Commit
<1>3. owed' = owed /\ clean' = clean /\ hurt' = hurt
  BY DEF Commit, agentHistory
<1>5. /\ c \in Writes /\ c \notin committed
      /\ \A d \in Writes \ committed :
           IF agent = "claude" THEN d <= c ELSE d >= c
  BY <1>2 DEF NextToCommit
<1>4. /\ committed \subseteq {First} /\ committed \subseteq Writes
      /\ answer = "none" /\ forced \in BOOLEAN /\ unread = {}
      /\ plan = Plans(seen, forced) /\ ~Refused(plan) /\ plan # Nothing
  BY <1>1, <1>2, <1>5 DEF RunPhase, Window
<1>6. \A d \in Pair : Excepted(d) \subseteq Excepted(d)'
  BY <1>2, <1>3, ExceptedGrows
<1>7. Plans(seen, forced)' = Plans(seen, forced)  BY <1>2, PlansStay
<1>8. /\ DOMAIN file' = Pair /\ file'[c] = plan[c]
      /\ \A d \in Pair : d # c => file'[d] = file[d]
  BY <1>1, <1>2 DEF Shapes
<1>9. Writes \subseteq Pair /\ Writes' = Writes  BY <1>2 DEF Writes, Pair
<1>10. c = First \/ Writes \subseteq committed'
  <2>1. CASE c # First
    <3>1. First \in Writes => First \in committed
      BY <1>5, <1>9, <2>1 DEF First, Pair, Reg, Second
    <3>2. \A d \in Pair : d = c \/ d = First
      BY <2>1, Pairs DEF First, Pair
    <3> QED  BY <1>2, <1>9, <3>1, <3>2
  <2> QED  BY <2>1
<1>11. /\ agent \in Agents /\ Shaped(agent, Reg, seen[Reg])
       /\ Shaped(agent, Second, seen[Second])
  BY <1>1, Pairs DEF Shapes
<1>12. /\ plan[Reg] = RegPlan(seen[Reg], forced) /\ plan[Reg] # Refuse
       /\ plan[Second] = SecondPlan(seen, forced) /\ plan[Second] # Refuse
  BY <1>4, PlansArePairs, Pairs
<1>13. Shapes'
  <2>1. Shaped(agent, c, plan[c])
    <3>1. plan[c] # Keep  BY <1>5 DEF Writes
    <3>2. CASE c = Reg
      BY <1>4, <1>11, <1>12, <3>1, <3>2, RegPlans
    <3>3. CASE c = Second
      BY <1>4, <1>11, <1>12, <3>1, <3>3, SecondPlans
    <3> QED  BY <3>2, <3>3 DEF Pair
  <2>2. \A d \in Pair : Shaped(agent, d, file'[d])
    BY <1>1, <1>8, <2>1 DEF Shapes
  <2> QED  BY <1>1, <1>2, <1>3, <1>8, <2>2 DEF Shapes
<1>14. RunPhase'
  <2>1. First' = First  BY <1>2 DEF First
  <2>2. Nothing' = Nothing  BY DEF Nothing, Keep, Blank
  <2>3. Refused(plan)' <=> Refused(plan)  BY <1>2 DEF Refused
  <2>4. committed' \subseteq Writes /\ committed' \subseteq Pair
    BY <1>2, <1>4, <1>5, <1>9
  <2>5. committed' \subseteq {First} \/ committed' = Writes
    BY <1>2, <1>4, <1>10, <2>4
  <2> QED  BY <1>1, <1>2, <1>4, <1>7, <1>9, <2>1, <2>2, <2>3, <2>4, <2>5
           DEF RunPhase, Window
<1>15. Held'
  <2>1. \A d \in Writes : owed[d] \ Excepted(d) \subseteq
                            Content(plan[d]) \cup kept[d]
    BY <1>1, <1>2 DEF Held
  <2>2. OthersKept'
    <3>1. \A d \in Pair : owed[d] \ Excepted(d) \subseteq
                            Content(file'[d]) \cup kept[d]
      BY <1>1, <1>5, <1>8, <2>1 DEF Held, OthersKept, Pair
    <3> QED  BY <1>2, <1>3, <1>6, <3>1 DEF OthersKept, Pair
  <2>3. phase' \in Window => \A d \in Pair \ unread' :
          owed'[d] \ Excepted(d)' \subseteq Content(seen'[d]) \cup kept'[d]
    BY <1>1, <1>2, <1>3, <1>6 DEF Held, Window
  <2>4. phase' = "commit" => \A d \in Writes' :
          owed'[d] \ Excepted(d)' \subseteq Content(plan'[d]) \cup kept'[d]
    BY <1>2, <1>3, <1>6, <1>9, <2>1
  <2>5. phase' = "commit" => \A d \in Pair :
          owed'[d] \ Excepted(d)' \subseteq Content(prior'[d]) \cup kept'[d]
    BY <1>1, <1>2, <1>3, <1>6 DEF Held
  <2> QED  BY <2>2, <2>3, <2>4, <2>5 DEF Held
<1>16. Undisturbed'
  <2>1. ASSUME clean, NEW d \in Pair
        PROVE  Alike(agent, d, file'[d],
                     IF d \in committed' THEN plan[d] ELSE seen[d])
    <3>1. CASE d = c
      BY <1>2, <1>8, <3>1 DEF Alike
    <3>2. CASE d # c
      BY <1>1, <1>2, <1>4, <1>8, <2>1, <3>2 DEF Undisturbed, Window
    <3> QED  BY <3>1, <3>2
  <2>2. OkIsCurrent'  BY <1>2 DEF OkIsCurrent
  <2>3. clean' /\ phase' \in Window => \A d \in Pair \ unread' :
          Alike(agent, d, file[d],
                IF d \in committed THEN plan[d] ELSE seen[d])'
    BY <1>2, <1>3, <2>1
  <2> QED  BY <2>2, <2>3 DEF Undisturbed
<1>17. InSync'
  <2> SUFFICES ASSUME agent = "codex", ~hurt
               PROVE  InSync'
    BY <1>2, <1>3 DEF InSync
  <2>1. plan[c] # Keep /\ First = Reg  BY <1>5 DEF Writes, First
  <2>2. Second \notin committed  BY <1>4, <2>1, Pairs
  <2>3. /\ file[Second].trust = seen[Second].trust
        /\ file[Second].trust = prior[Second].trust
        /\ Approved(prior[Reg], prior[Second].trust)
        /\ Reg \notin committed => Approved(file[Reg], prior[Second].trust)
    BY <1>1, <1>2, <1>4, <2>2, Pairs DEF InSync, Window
  <2>4. /\ plan[Second] = Keep /\ plan[Reg] # Keep =>
             seen[Second].trust = {}
        /\ plan[Second] # Keep /\ plan[Reg] # Keep => plan[Second].trust = {}
        /\ plan[Second] # Keep /\ plan[Reg] = Keep =>
             plan[Second].trust \subseteq seen[Second].trust
    <3>1. CodexPlan(seen[Reg]) = plan[Reg]  BY <1>12 DEF RegPlan
    <3> QED  BY <1>4, <1>11, <1>12, <3>1, SecondPlans
  <2>5. CASE c = Reg
    <3>1. /\ Reg \in committed' /\ Second \notin committed'
          /\ file'[Second] = file[Second]
      BY <1>2, <1>8, <2>2, <2>5, Pairs
    <3>2. ~Torn' => Approved(file'[Reg], file'[Second].trust)
      <4>1. SUFFICES ASSUME ~Torn'
                     PROVE  Approved(file'[Reg], file'[Second].trust)
        OBVIOUS
      <4>2. Second \notin Writes  BY <1>9, <3>1, <4>1 DEF Torn
      <4>3. plan[Second] = Keep  BY <4>2 DEF Writes
      <4>4. file'[Second].trust = {}
        BY <2>1, <2>3, <2>4, <2>5, <3>1, <4>3
      <4> QED  BY <4>4 DEF Approved
    <3> QED  BY <1>2, <2>3, <3>1, <3>2 DEF InSync
  <2>6. CASE c = Second
    <3>1. /\ Second \in committed' /\ (Reg \in committed' <=> Reg \in committed)
          /\ file'[Second] = plan[Second] /\ file'[Reg] = file[Reg]
      BY <1>2, <1>8, <2>6, Pairs
    <3>2. Approved(file'[Reg], file'[Second].trust)
      <4>1. CASE plan[Reg] # Keep
        BY <2>1, <2>4, <2>6, <3>1, <4>1 DEF Approved
      <4>2. CASE plan[Reg] = Keep
        <5>1. Reg \notin committed  BY <1>4, <4>2 DEF Writes
        <5> QED  BY <2>1, <2>3, <2>4, <2>6, <3>1, <4>2, <5>1 DEF Approved
      <4> QED  BY <4>1, <4>2
    <3> QED  BY <1>2, <2>3, <3>1, <3>2 DEF InSync
  <2> QED  BY <2>5, <2>6 DEF Pair
<1> QED  BY <1>13, <1>14, <1>15, <1>16, <1>17 DEF HooksInv

LEMMA SettleKeeps ==
  ASSUME HooksInv, Settle
  PROVE  HooksInv'
<1>1. Shapes /\ RunPhase /\ Held /\ Undisturbed /\ InSync  BY DEF HooksInv
<1>2. /\ phase = "commit" /\ Writes \subseteq committed
      /\ phase' = "idle" /\ answer' \in {"ok", "failed"}
      /\ agent' = agent /\ around' = around /\ file' = file /\ kept' = kept
      /\ owed' = owed /\ forced' = forced /\ seen' = seen
      /\ unread' = unread /\ prior' = prior /\ committed' = committed
      /\ clean' = clean /\ hurt' = hurt
  BY DEF Settle, Answer, DiskUnchanged
<1>3. /\ committed = Writes /\ forced \in BOOLEAN /\ unread = {}
      /\ plan = Plans(seen, forced) /\ ~Refused(plan)
  BY <1>1, <1>2 DEF RunPhase, Window
<1>4. \A d \in Pair : Excepted(d) \subseteq Excepted(d)'
  BY <1>2, ExceptedGrows
<1>5. Shapes'  BY <1>1, <1>2 DEF Shapes
<1>6. RunPhase'  BY <1>1, <1>2 DEF RunPhase, Window
<1>7. Held'
  <2>1. OthersKept'  BY <1>1, <1>2, <1>4 DEF Held, OthersKept, Pair
  <2> QED  BY <1>2, <2>1 DEF Held, Window
<1>8. Undisturbed'
  <2>1. OkIsCurrent'
    <3> SUFFICES ASSUME clean, around.package
                 PROVE  Plans(file, FALSE)' = Nothing
      BY <1>2 DEF OkIsCurrent, Nothing, Keep, Blank
    <3>1. \A d \in Pair : d \in committed <=> plan[d] # Keep
      BY <1>3 DEF Writes, Pair
    <3>2. \A d \in Pair : Alike(agent, d, file[d],
                            IF plan[d] = Keep THEN seen[d] ELSE plan[d])
      BY <1>1, <1>2, <1>3, <3>1 DEF Undisturbed, Window
    <3>3. agent \in Agents /\ \A d \in Pair : /\ Shaped(agent, d, seen[d])
                                              /\ Shaped(agent, d, file[d])
      BY <1>1 DEF Shapes
    <3>4. Plans(file, FALSE) = Nothing
      BY <1>3, <3>2, <3>3, WrittenIsCurrent
    <3> QED  BY <1>2, <3>4, PlansStay
  <2> QED  BY <1>2, <2>1 DEF Undisturbed, Window
<1>9. InSync'
  <2>1. ~Torn  BY <1>3 DEF Torn
  <2> QED  BY <1>1, <1>2, <2>1 DEF InSync, Window
<1> QED  BY <1>5, <1>6, <1>7, <1>8, <1>9 DEF HooksInv

LEMMA CommitFailsKeeps ==
  ASSUME HooksInv, CommitFails
  PROVE  HooksInv'
<1>1. Shapes /\ RunPhase /\ Held /\ Undisturbed /\ InSync  BY DEF HooksInv
<1>2. /\ phase = "commit" /\ phase' = "idle" /\ answer' \in {"failed", "none"}
      /\ agent' = agent /\ around' = around /\ kept' = kept
      /\ forced' = forced /\ seen' = seen /\ unread' = unread
      /\ prior' = prior /\ committed' = committed /\ owed' = owed
  BY DEF CommitFails, Answer
<1>a. PICK back \in SUBSET committed :
        /\ \A c \in back : file[c] = plan[c]
        /\ file' = [c \in {Reg, Second} |->
                     IF c \notin back THEN file[c]
                     ELSE IF WasAbsent(c) THEN Blank ELSE prior[c]]
        /\ hurt' = (hurt \/ \E c \in committed :
                      c \notin back \/ file'[c] # prior[c])
  BY DEF CommitFails
<1>3. /\ committed \subseteq Writes /\ forced \in BOOLEAN /\ unread = {}
      /\ plan = Plans(seen, forced) /\ ~Refused(plan)
  BY <1>1, <1>2 DEF RunPhase, Window
<1>4. \A d \in Pair : Excepted(d) \subseteq Excepted(d)'
  BY <1>2, <1>a, ExceptedGrows
<1>5. Writes \subseteq Pair  BY DEF Writes, Pair
<1>6. DOMAIN file' = Pair /\ \A d \in Pair :
        \/ file'[d] = file[d]
        \/ /\ d \in committed /\ file[d] = plan[d] /\ file'[d] = prior[d]
        \/ /\ d \in committed /\ file[d] = plan[d] /\ file'[d] = Blank
           /\ WasAbsent(d)
           /\ file'[d] # prior[d] => hurt'
  <2>1. DOMAIN file' = Pair /\ \A d \in Pair : file'[d] =
          IF d \notin back THEN file[d]
          ELSE IF WasAbsent(d) THEN Blank ELSE prior[d]
    BY <1>a DEF Pair
  <2>2. \A d \in back : d \in committed /\ file[d] = plan[d]  BY <1>a
  <2>3. \A d \in committed : file'[d] # prior[d] => hurt'  BY <1>a
  <2> QED  BY <2>1, <2>2, <2>3
<1>7. Shapes'
  <2>1. \A d \in Pair : Shaped(agent, d, file'[d])
    BY <1>1, <1>6, BlankIsShaped DEF Shapes
  <2> QED  BY <1>1, <1>2, <1>6, <2>1 DEF Shapes
<1>8. RunPhase'  BY <1>1, <1>2 DEF RunPhase, Window
<1>9. Held'
  <2>1. ASSUME NEW d \in Pair
        PROVE  owed[d] \ Excepted(d)' \subseteq Content(file'[d]) \cup kept[d]
    <3>1. /\ owed[d] \ Excepted(d) \subseteq Content(file[d]) \cup kept[d]
          /\ owed[d] \ Excepted(d) \subseteq Content(prior[d]) \cup kept[d]
          /\ owed[d] \ Excepted(d) \subseteq Content(seen[d]) \cup kept[d]
      BY <1>1, <1>2, <1>3 DEF Held, OthersKept, Pair, Window
    <3>2. CASE file'[d] = file[d]
      BY <1>4, <3>1, <3>2
    <3>3. CASE file'[d] = prior[d]
      BY <1>4, <3>1, <3>3
    <3>4. CASE d \in committed /\ WasAbsent(d) /\ file'[d] # prior[d] /\ hurt'
      <4>1. \/ agent = "cursor" /\ d = Reg
            \/ Content(seen[d]) \subseteq Excepted(d)
        BY <1>1, <1>3, <3>4, Pairs, AbsentHeldNothing DEF Shapes
      <4>2. CASE agent = "cursor" /\ d = Reg
        <5>1. Items \cup {UserItem} \subseteq Excepted(d)'
          BY <1>2, <3>4, <4>2 DEF Excepted
        <5>2. owed[d] \subseteq Items \cup {UserItem}
          BY <1>1 DEF Shapes
        <5> QED  BY <5>1, <5>2
      <4>3. CASE Content(seen[d]) \subseteq Excepted(d)
        BY <1>4, <3>1, <4>3
      <4> QED  BY <4>1, <4>2, <4>3
    <3> QED  BY <1>6, <3>2, <3>3, <3>4
  <2>2. OthersKept'  BY <1>2, <2>1 DEF OthersKept, Pair
  <2> QED  BY <1>2, <2>2 DEF Held, Window
<1>10. Undisturbed'  BY <1>2 DEF Undisturbed, OkIsCurrent, Window
<1>11. InSync'
  <2> SUFFICES ASSUME agent = "codex", ~hurt'
               PROVE  InSync'
    BY <1>2 DEF InSync
  <2>1. ~hurt /\ \A d \in committed : file'[d] = prior[d]
    BY <1>a
  <2>2. \A d \in Pair : d \notin committed => file'[d] = file[d]
    BY <1>6
  <2>3. file'[Second].trust = prior[Second].trust
    <3>1. CASE Second \in committed
      BY <2>1, <3>1
    <3>2. CASE Second \notin committed
      BY <1>1, <1>2, <2>1, <2>2, <3>2, Pairs DEF InSync
    <3> QED  BY <3>1, <3>2
  <2>4. Approved(file'[Reg], prior[Second].trust)
    <3>1. CASE Reg \in committed
      BY <1>1, <1>2, <2>1, <3>1 DEF InSync
    <3>2. CASE Reg \notin committed
      BY <1>1, <1>2, <2>1, <2>2, <3>2, Pairs DEF InSync
    <3> QED  BY <3>1, <3>2
  <2>5. Approved(file'[Reg], file'[Second].trust)  BY <2>3, <2>4
  <2> QED  BY <1>2, <2>5 DEF InSync, Window
<1> QED  BY <1>7, <1>8, <1>9, <1>10, <1>11 DEF HooksInv

\* What a user's edit makes of a file: one item more, nothing gone.
LEMMA EditAdds ==
  ASSUME NEW c \in Pair, NEW i \in Items, UserEdits(c, i), Shapes
  PROVE  /\ DOMAIN file' = Pair
         /\ \A d \in Pair : d # c => file'[d] = file[d]
         /\ Shaped(agent, c, file'[c])
         /\ Content(file[c]) \cup {i} \subseteq Content(file'[c])
         /\ \A p \in DOMAIN file[c].groups : /\ p \in DOMAIN file'[c].groups
                                             /\ file'[c].groups[p]
                                                  = file[c].groups[p]
         /\ agent = "codex" => file'[c].trust = file[c].trust
<1> DEFINE f == file[c]
           g == OneGuest(i)
           grouped == [f EXCEPT !.groups = Append(@, g)]
           lined == [f EXCEPT !.mine = @ \cup {i}]
           texted == [f EXCEPT !.mine = @ \cup {i},
                        !.text = IF @ = "foreign" THEN @ ELSE "edited"]
<1>1. /\ f.kind = "file" /\ i \notin Content(f)
      /\ file' = [file EXCEPT ![c] =
           IF c = Reg /\ agent # "opencode" THEN grouped
           ELSE IF agent = "codex" THEN lined ELSE texted]
  BY DEF UserEdits, WithItem
<1>2. DOMAIN file = Pair /\ Shaped(agent, c, f)  BY DEF Shapes
<1>3. f \in Files /\ GroupsOk(f.groups)  BY <1>2, GroupsAreOk
<1>4. g \in Group /\ g.own = "none" /\ g.guests = {i}
  BY DEF Group, OneGuest
<1> HIDE DEF grouped, lined, texted
<1>5. /\ DOMAIN file' = Pair /\ \A d \in Pair : d # c => file'[d] = file[d]
      /\ file'[c] = IF c = Reg /\ agent # "opencode" THEN grouped
                    ELSE IF agent = "codex" THEN lined ELSE texted
  BY <1>1, <1>2
<1> HIDE DEF f, g
<1>6. CASE c = Reg /\ agent # "opencode"
  <2> DEFINE hs == Append(f.groups, g)
  <2>1. /\ GroupsOk(hs) /\ Guests(hs) = Guests(f.groups) \cup {i}
        /\ DOMAIN f.groups \subseteq DOMAIN hs
        /\ \A p \in DOMAIN f.groups : hs[p] = f.groups[p]
    <3>1. g \in Group /\ g.own # "cohort"  BY <1>4
    <3> DEFINE n == Len(f.groups) + 1
    <3>2. /\ GroupsOk(hs) /\ Guests(hs) = Guests(f.groups) \cup g.guests
          /\ DOMAIN hs = (DOMAIN f.groups) \cup {n}
          /\ \A p \in DOMAIN f.groups : hs[p] = f.groups[p]
      BY <1>3, <3>1, AppendedIs
    <3> HIDE DEF hs, n
    <3> QED  BY <1>4, <3>2
  <2>2. hs \in Seq(Group)  BY <2>1 DEF GroupsOk
  <2>3. grouped = [f EXCEPT !.groups = hs]  BY DEF grouped
  <2> HIDE DEF hs
  <2>4. /\ grouped \in Files /\ grouped.kind = "file" /\ grouped.groups = hs
        /\ grouped.text = f.text /\ grouped.mine = f.mine
        /\ grouped.trust = f.trust
    BY <1>1, <1>3, <2>2, <2>3 DEF Files
  <2>5. f.text = "none"  BY <1>2, <1>6 DEF Shaped, IsAsset
  <2>6. Shaped(agent, c, grouped)
    BY <1>6, <2>1, <2>4, <2>5 DEF Shaped, IsAsset, Readable, GroupsOk
  <2>7. HasEdited(f.groups) => HasEdited(hs)  BY <2>1 DEF HasEdited
  <2>8. Content(f) \cup {i} \subseteq Content(grouped)
    BY <2>1, <2>4, <2>7 DEF Content
  <2> QED  BY <1>5, <1>6, <2>1, <2>4, <2>6, <2>8 DEF f
<1>7. CASE ~(c = Reg /\ agent # "opencode") /\ agent = "codex"
  <2>1. /\ lined \in Files /\ lined.kind = "file" /\ lined.groups = f.groups
        /\ lined.text = f.text /\ lined.mine = f.mine \cup {i}
        /\ lined.trust = f.trust
    BY <1>1, <1>3 DEF lined, Files
  <2>2. ~IsAsset(agent, c)  BY <1>7, Pairs DEF IsAsset, Pair
  <2>3. Shaped(agent, c, lined)
    BY <1>2, <2>1, <2>2 DEF Shaped, Readable
  <2>4. Content(f) \cup {i} \subseteq Content(lined)  BY <2>1 DEF Content
  <2> QED  BY <1>5, <1>7, <2>1, <2>3, <2>4 DEF f
<1>8. CASE ~(c = Reg /\ agent # "opencode") /\ agent # "codex"
  <2> DEFINE t == IF f.text = "foreign" THEN f.text ELSE "edited"
  <2>1. texted = [f EXCEPT !.mine = f.mine \cup {i}, !.text = t]
    BY DEF texted
  <2>2. t \in {"foreign", "edited"}  OBVIOUS
  <2> HIDE DEF t
  <2>3. /\ texted \in Files /\ texted.kind = "file"
        /\ texted.groups = f.groups /\ texted.text = t
        /\ texted.mine = f.mine \cup {i}
    BY <1>1, <1>3, <2>1, <2>2 DEF Files
  <2>4. IsAsset(agent, c)  BY <1>8, Pairs DEF IsAsset, Pair
  <2>5. Shaped(agent, c, texted)
    BY <1>2, <2>2, <2>3, <2>4 DEF Shaped, Readable
  <2>6. Content(f) \cup {i} \subseteq Content(texted)  BY <2>3 DEF Content
  <2> QED  BY <1>5, <1>8, <2>3, <2>5, <2>6 DEF f
<1> QED  BY <1>6, <1>7, <1>8

LEMMA UserEditsKeeps ==
  ASSUME HooksInv, NEW c \in Pair, NEW i \in Items, UserEdits(c, i)
  PROVE  HooksInv'
<1>1. Shapes /\ RunPhase /\ Held /\ Undisturbed /\ InSync  BY DEF HooksInv
<1>2. /\ DOMAIN file' = Pair
      /\ \A d \in Pair : d # c => file'[d] = file[d]
      /\ Shaped(agent, c, file'[c])
      /\ Content(file[c]) \cup {i} \subseteq Content(file'[c])
      /\ \A p \in DOMAIN file[c].groups :
           p \in DOMAIN file'[c].groups /\ file'[c].groups[p] = file[c].groups[p]
      /\ agent = "codex" => file'[c].trust = file[c].trust
  BY <1>1, EditAdds
<1>3. /\ owed' = IF InWindow THEN owed ELSE [owed EXCEPT ![c] = @ \cup {i}]
      /\ clean' = FALSE /\ agent' = agent /\ around' = around /\ kept' = kept
      /\ hurt' = hurt
  BY DEF UserEdits
<1>4. /\ phase' = phase /\ forced' = forced /\ seen' = seen
      /\ unread' = unread /\ plan' = plan /\ prior' = prior
      /\ committed' = committed /\ answer' = answer
  BY DEF UserEdits, runVars
<1>5. InWindow <=> phase \in Window  BY DEF InWindow, Window
<1>6. /\ DOMAIN owed' = Pair
      /\ phase \in Window => owed' = owed
      /\ \A d \in Pair : owed'[d] \subseteq owed[d] \cup {i}
      /\ \A d \in Pair : d # c => owed'[d] = owed[d]
  BY <1>1, <1>3, <1>5 DEF Shapes
<1>7. \A d \in Pair : Excepted(d) \subseteq Excepted(d)'
  BY <1>3, ExceptedGrows
<1>8. Plans(seen, forced)' = Plans(seen, forced)
  BY <1>3, <1>4, PlansStay
<1>9. Writes' = Writes /\ First' = First /\ (Refused(plan)' <=> Refused(plan))
        /\ Nothing' = Nothing /\ (Torn' <=> Torn)
  BY <1>3, <1>4 DEF Writes, First, Refused, Nothing, Keep, Blank, Torn
<1>10. Shapes'
  <2>1. \A d \in Pair : Shaped(agent, d, file'[d])
    BY <1>1, <1>2 DEF Shapes
  <2>2. \A d \in Pair : owed'[d] \subseteq Items \cup {UserItem}
    BY <1>1, <1>6 DEF Shapes
  <2> QED  BY <1>1, <1>2, <1>3, <1>4, <1>6, <2>1, <2>2 DEF Shapes
<1>11. RunPhase'  BY <1>1, <1>4, <1>8, <1>9 DEF RunPhase
<1>12. Held'
  <2>1. OthersKept'
    <3> SUFFICES ASSUME NEW d \in Pair
                 PROVE  owed'[d] \ Excepted(d)' \subseteq
                          Content(file'[d]) \cup kept[d]
      BY <1>3 DEF OthersKept, Pair
    <3>1. owed[d] \ Excepted(d) \subseteq Content(file[d]) \cup kept[d]
      BY <1>1 DEF Held, OthersKept, Pair
    <3>2. CASE d = c
      BY <1>2, <1>6, <1>7, <3>1, <3>2
    <3>3. CASE d # c
      BY <1>2, <1>6, <1>7, <3>1, <3>3
    <3> QED  BY <3>2, <3>3
  <2>2. phase' \in Window => \A d \in Pair \ unread' :
          owed'[d] \ Excepted(d)' \subseteq Content(seen'[d]) \cup kept'[d]
    BY <1>1, <1>3, <1>4, <1>6, <1>7 DEF Held
  <2>3. phase' = "commit" =>
          /\ \A d \in Writes' : owed'[d] \ Excepted(d)' \subseteq
                                  Content(plan'[d]) \cup kept'[d]
          /\ \A d \in Pair : owed'[d] \ Excepted(d)' \subseteq
                               Content(prior'[d]) \cup kept'[d]
    <3>1. phase = "commit" => owed' = owed /\ Writes \subseteq Pair
      BY <1>6 DEF Window, Writes, Pair
    <3> QED  BY <1>1, <1>3, <1>4, <1>7, <1>9, <3>1 DEF Held
  <2> QED  BY <2>1, <2>2, <2>3 DEF Held
<1>13. Undisturbed'  BY <1>3 DEF Undisturbed, OkIsCurrent
<1>14. InSync'
  <2> SUFFICES ASSUME agent = "codex", ~hurt
               PROVE  InSync'
    BY <1>3 DEF InSync
  <2>1. file'[Second].trust = file[Second].trust
    BY <1>2, Pairs DEF Pair
  <2>2. \A trust : Approved(file[Reg], trust) => Approved(file'[Reg], trust)
    <3>1. \A p \in DOMAIN file[Reg].groups :
            /\ p \in DOMAIN file'[Reg].groups
            /\ file'[Reg].groups[p] = file[Reg].groups[p]
      BY <1>2, Pairs
    <3> QED  BY <3>1 DEF Approved
  <2> QED  BY <1>1, <1>3, <1>4, <1>9, <2>1, <2>2 DEF InSync
<1> QED  BY <1>10, <1>11, <1>12, <1>13, <1>14 DEF HooksInv

LEMMA UserApprovesKeeps ==
  ASSUME HooksInv, NEW p \in 1..3, UserApproves(p)
  PROVE  HooksInv'
<1> DEFINE f == file[Second]
           trust == {t \in f.trust : t.at # p}
                      \cup {[at |-> p, of |-> file[Reg].groups[p]]}
           h == [f EXCEPT !.trust = trust]
<1>1. Shapes /\ RunPhase /\ Held /\ Undisturbed /\ InSync  BY DEF HooksInv
<1>2. /\ agent = "codex" /\ file[Reg].kind = "file"
      /\ p \in DOMAIN file[Reg].groups
      /\ f.kind = "file"
      /\ file' = [file EXCEPT ![Second].trust =
           {t \in @ : t.at # p} \cup {[at |-> p, of |-> file[Reg].groups[p]]}]
      /\ hurt' = (hurt \/ phase # "idle")
      /\ agent' = agent /\ around' = around /\ kept' = kept /\ owed' = owed
      /\ clean' = clean
  BY DEF UserApproves
<1>3. /\ phase' = phase /\ forced' = forced /\ seen' = seen
      /\ unread' = unread /\ plan' = plan /\ prior' = prior
      /\ committed' = committed /\ answer' = answer
  BY DEF UserApproves, runVars
<1>4. file' = [file EXCEPT ![Second] = h]  BY <1>2
<1>5. /\ DOMAIN file = Pair /\ Shaped("codex", Second, f) /\ f \in Files
      /\ Shaped("codex", Reg, file[Reg]) /\ file[Reg] \in Files
  BY <1>1, <1>2, Pairs DEF Shapes, Shaped
<1>6. trust \in SUBSET [at : Nat, of : Group]
  <2>1. p \in Nat /\ file[Reg].groups[p] \in Group
    BY <1>2, <1>5, FieldsOfFiles
  <2>2. [at |-> p, of |-> file[Reg].groups[p]] \in [at : Nat, of : Group]
    BY <2>1
  <2>3. f.trust \in SUBSET [at : Nat, of : Group]  BY <1>5, FieldsOfFiles
  <2> QED  BY <2>2, <2>3
<1> HIDE DEF f, trust
<1>7. /\ h \in Files /\ h.kind = f.kind /\ h.groups = f.groups
      /\ h.text = f.text /\ h.mine = f.mine /\ h.features = f.features
      /\ h.trust = trust
  BY <1>5, <1>6 DEF Files
<1>8. [h EXCEPT !.trust = {}] = [f EXCEPT !.trust = {}]
  <2> HIDE DEF h
  <2>1. h = [f EXCEPT !.trust = trust]  BY DEF h
  <2> QED  BY <1>5, <1>6, <2>1 DEF Files
<1>9. Shaped("codex", Second, h)
  <2> HIDE DEF h
  <2> QED  BY <1>2, <1>5, <1>7 DEF Shaped, IsAsset, Readable, Reg, Second
<1>10. Content(h) = Content(f)
  <2> HIDE DEF h
  <2> QED  BY <1>7 DEF Content
<1> HIDE DEF h
<1>11. DOMAIN file' = Pair /\ file'[Second] = h /\ file'[Reg] = file[Reg]
  BY <1>4, <1>5, Pairs
<1>12. \A d \in Pair : Excepted(d) \subseteq Excepted(d)'
  BY <1>2, ExceptedGrows
<1>13. Plans(seen, forced)' = Plans(seen, forced)
  BY <1>2, <1>3, PlansStay
<1>14. Writes' = Writes /\ First' = First /\ (Refused(plan)' <=> Refused(plan))
         /\ Nothing' = Nothing
  BY <1>2, <1>3 DEF Writes, First, Refused, Nothing, Keep, Blank
<1>15. \A d \in Pair : Content(file'[d]) = Content(file[d])
  BY <1>10, <1>11 DEF Pair, f
<1>16. Shapes'
  <2>1. \A d \in Pair : Shaped(agent, d, file'[d])
    BY <1>2, <1>5, <1>9, <1>11 DEF Pair
  <2> QED  BY <1>1, <1>2, <1>3, <1>11, <2>1 DEF Shapes
<1>17. RunPhase'  BY <1>1, <1>3, <1>13, <1>14 DEF RunPhase
<1>18. Held'
  <2>1. OthersKept'
    BY <1>1, <1>2, <1>12, <1>15 DEF Held, OthersKept, Pair
  <2>2. phase' \in Window => \A d \in Pair \ unread' :
          owed'[d] \ Excepted(d)' \subseteq Content(seen'[d]) \cup kept'[d]
    BY <1>1, <1>2, <1>3, <1>12 DEF Held
  <2>3. phase' = "commit" =>
          /\ \A d \in Writes' : owed'[d] \ Excepted(d)' \subseteq
                                  Content(plan'[d]) \cup kept'[d]
          /\ \A d \in Pair : owed'[d] \ Excepted(d)' \subseteq
                               Content(prior'[d]) \cup kept'[d]
    <3>1. Writes \subseteq Pair  BY DEF Writes, Pair
    <3> QED  BY <1>1, <1>2, <1>3, <1>12, <1>14, <3>1 DEF Held
  <2> QED  BY <2>1, <2>2, <2>3 DEF Held
<1>19. Undisturbed'
  <2>1. OkIsCurrent'
    <3> SUFFICES ASSUME phase = "idle", answer = "ok", clean, around.package
                 PROVE  Plans(file, FALSE)' = Nothing
      BY <1>2, <1>3, <1>14 DEF OkIsCurrent
    <3>1. Plans(file, FALSE) = Nothing
      BY <1>1 DEF Undisturbed, OkIsCurrent
    <3>2. agent \in Agents /\ Shaped(agent, Reg, file[Reg])
            /\ Shaped(agent, Second, file[Second])
      BY <1>1, Pairs DEF Shapes
    <3>3. RegState(file[Reg]) = "managed-current" /\ SecondOk(agent, f)
      BY <3>1, <3>2, NothingToDo DEF f
    <3>4. SecondOk(agent, h)
      BY <1>2, <1>7, <3>3 DEF SecondOk, Readable
    <3>5. Plans(file', FALSE) = Nothing
      BY <1>2, <1>9, <1>11, <3>2, <3>3, <3>4, NothingToDo
    <3> QED  BY <1>2, <3>5, PlansStay
  <2>2. clean' /\ phase' \in Window => \A d \in Pair \ unread' :
          Alike(agent, d, file[d],
                IF d \in committed THEN plan[d] ELSE seen[d])'
    <3>1. \A x : \A d \in Pair : Alike(agent, d, file[d], x)
                               => Alike(agent, d, file'[d], x)
      BY <1>2, <1>8, <1>11, Pairs DEF Alike, Pair, f
    <3> QED  BY <1>1, <1>2, <1>3, <3>1 DEF Undisturbed
  <2> QED  BY <2>1, <2>2 DEF Undisturbed
<1>20. InSync'
  <2> SUFFICES ASSUME ~hurt, phase = "idle"
               PROVE  InSync'
    BY <1>2 DEF InSync
  <2>1. Approved(file[Reg], f.trust)  BY <1>1, <1>2 DEF InSync, f
  <2>2. Approved(file[Reg], trust)  BY <1>2, <2>1 DEF Approved, trust
  <2> QED  BY <1>3, <1>7, <1>11, <2>2 DEF InSync, Window
<1> QED  BY <1>16, <1>17, <1>18, <1>19, <1>20 DEF HooksInv

LEMMA HooksStep == HooksInv /\ [AgentNext]_agentVars => HooksInv'
<1> SUFFICES ASSUME HooksInv, [AgentNext]_agentVars
             PROVE  HooksInv'
  OBVIOUS
<1>1. ASSUME NEW force \in BOOLEAN, Invoke(force)
      PROVE  HooksInv'
  BY <1>1, InvokeKeeps
<1>2. ASSUME NEW c \in {Reg, Second}, Read(c) \/ Commit(c)
      PROVE  HooksInv'
  BY <1>2, ReadKeeps, CommitKeeps DEF Pair
<1>3. CASE Decide
  BY <1>3, DecideKeeps
<1>4. CASE Stage
  BY <1>4, StageKeeps
<1>5. CASE Settle \/ CommitFails
  BY <1>5, SettleKeeps, CommitFailsKeeps
<1>6. CASE Dies
  BY <1>6, DiesKeeps
<1>7. ASSUME NEW c \in {Reg, Second}, NEW i \in Items, UserEdits(c, i)
      PROVE  HooksInv'
  BY <1>7, UserEditsKeeps DEF Pair
<1>8. ASSUME NEW p \in 1..3, UserApproves(p)
      PROVE  HooksInv'
  BY <1>8, UserApprovesKeeps
<1>9. CASE UNCHANGED agentVars
  <2>1. /\ agent' = agent /\ around' = around /\ file' = file /\ kept' = kept
        /\ phase' = phase /\ forced' = forced /\ seen' = seen
        /\ unread' = unread /\ plan' = plan /\ prior' = prior
        /\ committed' = committed /\ answer' = answer
        /\ owed' = owed /\ clean' = clean /\ hurt' = hurt
    BY <1>9 DEF agentVars, runVars, agentHistory
  <2>2. Shapes /\ RunPhase /\ Held /\ Undisturbed /\ InSync  BY DEF HooksInv
  <2>3. /\ Writes' = Writes /\ First' = First /\ Nothing' = Nothing
        /\ Refused(plan)' <=> Refused(plan)
        /\ Torn' <=> Torn
    BY <2>1 DEF Writes, First, Refused, Nothing, Keep, Blank, Torn
  <2>4. Plans(seen, forced)' = Plans(seen, forced)
          /\ Plans(file, FALSE)' = Plans(file, FALSE)
    BY <2>1, PlansStay
  <2>5. \A d \in Pair : Excepted(d)' = Excepted(d)  BY <2>1 DEF Excepted
  <2>6. Shapes' /\ RunPhase'  BY <2>1, <2>2, <2>3, <2>4 DEF Shapes, RunPhase
  <2>7. Held'
    <3>1. Writes \subseteq Pair  BY DEF Writes, Pair
    <3>2. OthersKept'
      BY <2>1, <2>2, <2>5 DEF Held, OthersKept, Pair
    <3>3. /\ phase' \in Window => \A d \in Pair \ unread' :
               owed'[d] \ Excepted(d)' \subseteq Content(seen'[d]) \cup kept'[d]
          /\ phase' = "commit" =>
               /\ \A d \in Writes' : owed'[d] \ Excepted(d)' \subseteq
                                       Content(plan'[d]) \cup kept'[d]
               /\ \A d \in Pair : owed'[d] \ Excepted(d)' \subseteq
                                    Content(prior'[d]) \cup kept'[d]
      BY <2>1, <2>2, <2>3, <2>5, <3>1 DEF Held
    <3> QED  BY <3>2, <3>3 DEF Held
  <2>8. Undisturbed' /\ InSync'
    BY <2>1, <2>2, <2>3, <2>4 DEF Undisturbed, OkIsCurrent, InSync
  <2> QED  BY <2>6, <2>7, <2>8 DEF HooksInv
<1> QED  BY <1>1, <1>2, <1>3, <1>4, <1>5, <1>6, <1>7, <1>8, <1>9
      DEF AgentNext

LEMMA HooksInvariant == AgentSpec => []HooksInv
BY HooksStart, HooksStep, PTL DEF AgentSpec

\* The files, the backups and the run keep their shape, whoever writes.
THEOREM HooksAreTyped == AgentSpec => []AgentTypeOK
<1>1. HooksInv => AgentTypeOK
  <2> SUFFICES ASSUME HooksInv
               PROVE  AgentTypeOK
    OBVIOUS
  <2>1. Shapes /\ RunPhase  BY DEF HooksInv
  <2>2. \A c \in Pair : file[c] \in Files  BY <2>1 DEF Shapes, Shaped
  <2>3. \A c \in Pair : /\ file[c].kind \in FileKinds
                        /\ \A i \in DOMAIN file[c].groups :
                             file[c].groups[i] \in Group
    BY <2>2, FieldsOfFiles
  <2> QED  BY <2>1, <2>3 DEF AgentTypeOK, Shapes, RunPhase, Pair, Window
<1> QED  BY <1>1, HooksInvariant, PTL

\* What a user wrote into one of the files outside a run stays in it or in a
\* persistent backup, for all registrations, second files and runs
\* (claude-hook-manager.ts:1078, codex-hook-manager.ts:319-325).
THEOREM UsersFilesAreKept == AgentSpec => []OthersKept
<1>1. HooksInv => OthersKept  BY DEF HooksInv, Held
<1> QED  BY <1>1, HooksInvariant, PTL

\* Node 22 is the only banner the doctor takes for a good one.
LEMMA NodeIsKnown ==
  ASSUME around \in Surroundings, NodeStatus(around.spawn) \notin
           {"absent", "old", "unknown"}
  PROVE  around.spawn = "v22"
BY HooksAssumption DEF NodeStatus

LEMMA DoctorIsRight == HooksInv => RunnableFires
<1> SUFFICES ASSUME HooksInv, phase = "idle", ~hurt, ExitCode = 0,
                    agent = "codex" =>
                      file[Reg].groups[1].own \in {"current", "edited"}
             PROVE  Fires
  BY DEF RunnableFires
<1>1. agent \in Agents /\ around \in Surroundings  BY DEF HooksInv, Shapes
<1>2. Verdict = "runnable"  BY DEF ExitCode
<1>3. CASE agent = "claude"
  <2>1. ClaudeVerdict = "runnable"  BY <1>2, <1>3 DEF Verdict
  <2>2. /\ Installed /\ SecondCurrent
        /\ \A s \in around.policy :
             /\ Probe(s) # "disable" /\ Probe(s) # "unknown"
             /\ Probe(s) = "managedOnly" => ~Managed(s)
        /\ NodeStatus(around.spawn) \notin {"absent", "old", "unknown"}
    BY <2>1 DEF ClaudeVerdict
  <2>3. \A s \in around.policy : s.kind # "absent" =>
          /\ ~FlagSet(s.disable)
          /\ Managed(s) => ~FlagSet(s.managedOnly)
    BY <2>2 DEF Probe
  <2> QED  BY <1>1, <1>3, <2>2, <2>3, NodeIsKnown DEF Fires
<1>4. CASE agent = "codex"
  <2>1. CodexVerdict = "runnable"  BY <1>2, <1>4 DEF Verdict
  <2>2. /\ file[Second].features # "false" /\ Trusted /\ around.package
        /\ NodeStatus(around.spawn) \notin {"absent", "old", "unknown"}
    BY <2>1 DEF CodexVerdict
  <2>3. Approved(file[Reg], file[Second].trust)
    BY <1>4 DEF HooksInv, InSync
  <2>4. PICK t \in file[Second].trust : t.at = 1  BY <2>2 DEF Trusted
  <2>5. /\ t.at \in DOMAIN file[Reg].groups
        /\ t.of = file[Reg].groups[t.at]
        /\ t.of.own \in {"current", "edited"}
    BY <1>4, <2>3, <2>4 DEF Approved
  <2> QED  BY <1>1, <1>4, <2>2, <2>5, NodeIsKnown DEF Fires
<1>5. CASE agent \notin {"claude", "codex"}
  BY <1>2, <1>5 DEF Verdict, CursorVerdict, GrokVerdict, OpenCodeVerdict
<1> QED  BY <1>3, <1>4, <1>5

\* A run that answers ok leaves the next nothing to do, and a doctor that
\* exits 0 is right that the guard fires, whatever policies, trusted hooks and
\* files there are (claude-hook-manager.ts:1220-1230 and 505-512,
\* codex-hook-manager.ts:708-738).
THEOREM VerdictsAreTrue == AgentSpec => []VerdictsHold
<1>1. HooksInv /\ AgentTypeOK => VerdictsHold
  BY DoctorIsRight DEF HooksInv, Undisturbed, VerdictsHold
<1> QED  BY <1>1, HooksInvariant, HooksAreTyped, PTL

-----------------------------------------------------------------------------
(* AI providers.                                                             *)

\* Settings of one target with nothing in them that was never proven: what a
\* command may write, keep as a backup or hold in memory.
Settings(t) == [models : IF t = "pi" THEN SUBSET proven ELSE SUBSET Models,
                routes : SUBSET proven, notes : SUBSET Notes,
                parts : SUBSET {"provider", "agent"}]

Applying == {"config", "backup", "temp", "rename"}
TargetLists == {<<"pi">>, <<"opencode">>, <<"pi", "opencode">>}

\* Where a command is, what it does there and to which targets.
Course ==
  /\ aiStep \in {"idle", "precheck", "evidence", "recheck", "plan"} \cup Applying
  /\ op.op \in {"none", "scope", "overlay", "rollback", "plan"}
  /\ aiStep \in {"recheck"} \cup Applying =>
       op.op \in {"scope", "overlay", "rollback"} /\ todo \in TargetLists
  /\ op.op \in {"overlay", "rollback"} => Len(todo) = 1 /\ todo \in TargetLists
  /\ aiStep = "evidence" /\ op.op # "plan" => todo \in TargetLists
  /\ aiStep = "evidence" => op.op \in {"scope", "overlay", "plan"}
  /\ aiStep = "precheck" => op.op = "plan"
  /\ aiStep \in {"recheck", "config"} => op.op # "rollback"

\* Evidence, wherever it stands, is of real probes.
Evident ==
  /\ Passing(results) \subseteq proven
  /\ tsv \subseteq proven
  /\ Passing(rows) \subseteq proven
  /\ input.pass \subseteq proven

\* Settings, wherever they stand, hold nothing that was never proven.
Sound ==
  /\ config \in [Targets -> UNION {Settings(t) : t \in Targets}]
  /\ \A t \in Targets : config[t] \in Settings(t)
  /\ \A b \in saved : b.of \in Targets /\ b.content \in Settings(b.of)
  /\ aiStep \in {"backup", "temp", "rename"} =>
       IF op.op = "rollback" THEN op.from \in Settings(Target)
       ELSE current \in Settings(Target)
  /\ aiStep \in Applying /\ op.op = "overlay" =>
       Refs(overlay[Target]) \subseteq proven

\* The notes of the backups of a target.
Kept(t) == UNION {b.content.notes : b \in {x \in saved : x.of = t}}

\* Once the backup is written it holds what is owed, until the rename.
Owed ==
  /\ notesOwed \in [Targets -> SUBSET Notes]
  /\ \A t \in Targets : notesOwed[t] \subseteq config[t].notes \cup Kept(t)
  /\ aiStep \in {"temp", "rename"} => notesOwed[Target] \subseteq Kept(Target)

AiInv ==
  /\ Course
  /\ Evident
  /\ Sound
  /\ Owed

-----------------------------------------------------------------------------

\* Lists of targets, and what is left of one.
LEMMA Lists ==
  ASSUME NEW l \in TargetLists
  PROVE  /\ Head(l) \in Targets
         /\ Len(l) > 1 => Tail(l) \in TargetLists
         /\ Len(l) > 1 => Len(l) # 1
<1>1. CASE l = <<"pi">>
  BY <1>1 DEF Targets, TargetLists
<1>2. CASE l = <<"opencode">>
  BY <1>2 DEF Targets, TargetLists
<1>3. CASE l = <<"pi", "opencode">>
  BY <1>3 DEF Targets, TargetLists
<1> QED  BY <1>1, <1>2, <1>3 DEF TargetLists

\* Where a command works on settings it works on those of a target.
LEMMA OnTarget ==
  ASSUME Course, aiStep \in {"recheck"} \cup Applying
  PROVE  Target \in Targets
BY Lists DEF Course, Target

\* What is proven stays proven, so sound settings stay sound.
LEMMA SettingsGrow ==
  ASSUME proven \subseteq proven', NEW t \in Targets
  PROVE  Settings(t) \subseteq Settings(t)'
BY DEF Settings

\* A command that ends leaves nothing in hand.
LEMMA StopStep ==
  ASSUME Stop
  PROVE  Course'
BY DEF Stop, Course, Idle, Applying

\* Only a scope goes on to a second target.
LEMMA CourseStep == AiInv /\ [AiNext]_aiVars => Course'
<1> SUFFICES ASSUME AiInv, [AiNext]_aiVars PROVE Course'  OBVIOUS
<1>0. CASE Stop  BY <1>0, StopStep
<1>1. CASE \E targets \in TargetLists, source \in Sources :
             ApplyScope(targets, source)
  BY <1>1 DEF ApplyScope, Start, Idle, Course, Applying
<1>2. CASE \E t \in Targets, source \in Sources : ApplyOverlay(t, source)
  BY <1>2 DEF ApplyOverlay, Start, Idle, Course, Applying, Targets, TargetLists
<1>3. CASE \E t \in Targets : Rollback(t)
  BY <1>3 DEF Rollback, Start, Idle, Course, Applying, Targets, TargetLists
<1>4. CASE \E source \in Sources, preset \in BOOLEAN : MakePlan(source, preset)
  BY <1>4 DEF MakePlan, Start, Idle, Course, Applying
<1>5. CASE ReadEvidence
  BY <1>5 DEF ReadEvidence, GotoStep, AiInv, Course, Applying
<1>6. CASE CheckPlanEvidence
  <2>1. CASE ~Stop
    BY <1>6, <2>1 DEF CheckPlanEvidence, GotoStep, AiInv, Course, Applying
  <2> QED  BY <1>0, <2>1
<1>7. CASE CheckEvidence
  BY <1>0, <1>7 DEF CheckEvidence, GotoStep, AiInv, Course, Applying
<1>8. CASE SavePlan \/ Die
  BY <1>0, <1>8 DEF SavePlan, Die
<1>9. CASE ReadConfig \/ WriteBackup \/ WriteTemp
  BY <1>0, <1>9 DEF ReadConfig, WriteBackup, WriteTemp, GotoStep, AiInv, Course,
       Applying
<1>10. CASE Rename
  <2>1. CASE ~Stop
    <3>1. /\ Len(todo) > 1 /\ todo' = Tail(todo) /\ aiStep' = "config"
          /\ op' = op /\ aiStep = "rename"
      BY <1>10, <2>1 DEF Rename, GotoStep
    <3>2. todo \in TargetLists /\ op.op \in {"scope", "overlay", "rollback"}
      BY <3>1 DEF AiInv, Course, Applying
    <3>3. todo' \in TargetLists  BY <3>1, <3>2, Lists
    <3>4. op.op = "scope"
      <4>1. Len(todo) # 1  BY <3>1, <3>2, Lists, Zenon
      <4>2. op.op \notin {"overlay", "rollback"}
        BY <4>1, Zenon DEF AiInv, Course
      <4> QED  BY <3>2, <4>2
    <3> QED  BY <3>1, <3>2, <3>3, <3>4 DEF Course, Applying
  <2> QED  BY <1>0, <2>1
<1>11. CASE \/ \E targets \in SUBSET Targets \ {{}} : Export(targets)
            \/ \E m \in Models, status \in {"all", "failed"}, local \in BOOLEAN :
                 StartProbe(m, status, local)
            \/ TimerFires \/ \E exitCode \in {0, 1} : ProbeCloses(exitCode)
            \/ WriteReport \/ WritePassList \/ DryRunReport
            \/ \E t \in Targets, n \in Notes : AiUserEdits(t, n)
            \/ Tick \/ UNCHANGED aiVars
  <2>1. UNCHANGED command
    BY <1>11 DEF Export, StartProbe, TimerFires, ProbeCloses, WriteReport,
         WritePassList, DryRunReport, AiUserEdits, Tick, aiVars
  <2> QED  BY <2>1 DEF AiInv, Course, command
<1> QED
  BY <1>1, <1>2, <1>3, <1>4, <1>5, <1>6, <1>7, <1>8, <1>9, <1>10, <1>11
     DEF AiNext, TargetLists

\* A model counts as passed, in any file or in memory, only if a probe saw it pass.
LEMMA EvidenceStep == AiInv /\ [AiNext]_aiVars => Evident'
<1> SUFFICES ASSUME AiInv, [AiNext]_aiVars PROVE Evident'  OBVIOUS
<1>1. CASE ReadEvidence
  <2>1. input' = Input(op.source) /\ UNCHANGED <<files, smoke, rest>>
    BY <1>1 DEF ReadEvidence
  <2>2. input'.pass \subseteq proven
    BY <2>1 DEF Input, AiInv, Evident
  <2> QED  BY <2>1, <2>2 DEF AiInv, Evident, Passing, files, smoke, rest
<1>2. CASE \E exitCode \in {0, 1} : ProbeCloses(exitCode)
  <2>1. PICK exitCode \in {0, 1} : ProbeCloses(exitCode)  BY <1>2
  <2>2. proven \subseteq proven' /\ UNCHANGED <<files, command>>
    BY <2>1 DEF ProbeCloses
  <2>3. Passing(rows') \subseteq proven'
    <3>1. SUFFICES ASSUME NEW row \in rows', row.status = "pass"
                   PROVE  row.model \in proven'
      BY DEF Passing
    <3>2. CASE row \in rows
      BY <2>2, <3>1, <3>2 DEF AiInv, Evident, Passing
    <3>3. CASE row \notin rows
      <4>1. row = [model |-> probe.model,
                   status |-> StatusOf(probe.timedOut, exitCode)]
        BY <2>1, <3>1, <3>3 DEF ProbeCloses
      <4>2. StatusOf(probe.timedOut, exitCode) = "pass"
        BY <3>1, <4>1
      <4>3. exitCode = 0 /\ ~probe.timedOut
        BY <4>2 DEF StatusOf
      <4> QED  BY <2>1, <4>1, <4>3 DEF ProbeCloses
    <3> QED  BY <3>2, <3>3
  <2> QED
    BY <2>2, <2>3 DEF AiInv, Evident, Passing, files, command
<1>3. CASE WriteReport \/ WritePassList
  BY <1>3 DEF WriteReport, WritePassList, AiInv, Evident, Passing, files,
       command, smoke, rest
<1>4. CASE DryRunReport
  <2>1. Passing(results') = {}
    BY <1>4 DEF DryRunReport, Passing
  <2> QED
    BY <1>4, <2>1 DEF DryRunReport, AiInv, Evident, Passing, command, smoke
<1>5. CASE Stop /\ UNCHANGED <<results, tsv, rows, proven>>
  BY <1>5 DEF Stop, NoInput, AiInv, Evident, Passing
<1>6. CASE UNCHANGED <<results, tsv, rows, proven, input>>
  BY <1>6 DEF AiInv, Evident, Passing
<1>7. \/ Stop /\ UNCHANGED <<results, tsv, rows, proven>>
      \/ UNCHANGED <<results, tsv, rows, proven, input>>
      \/ ReadEvidence \/ WriteReport \/ WritePassList \/ DryRunReport
      \/ \E exitCode \in {0, 1} : ProbeCloses(exitCode)
  <2>1. CASE \/ \E targets \in TargetLists, source \in Sources :
                  ApplyScope(targets, source)
             \/ \E t \in Targets, source \in Sources : ApplyOverlay(t, source)
             \/ \E t \in Targets : Rollback(t)
             \/ \E source \in Sources, preset \in BOOLEAN :
                  MakePlan(source, preset)
    BY <2>1 DEF ApplyScope, ApplyOverlay, Rollback, MakePlan, Start, files, smoke
  <2>2. CASE \/ \E targets \in SUBSET Targets \ {{}} : Export(targets)
             \/ \E m \in Models, status \in {"all", "failed"}, local \in BOOLEAN :
                  StartProbe(m, status, local)
             \/ TimerFires \/ \E t \in Targets, n \in Notes : AiUserEdits(t, n)
             \/ Tick \/ UNCHANGED aiVars
    BY <2>2 DEF Export, StartProbe, TimerFires, AiUserEdits, Tick, aiVars, files,
         command, smoke, rest
  <2>3. CASE CheckPlanEvidence \/ CheckEvidence \/ SavePlan \/ Die
    BY <2>3 DEF CheckPlanEvidence, CheckEvidence, SavePlan, Die, files, smoke,
         rest
  <2>4. CASE ReadConfig \/ WriteBackup \/ WriteTemp \/ Rename
    BY <2>4 DEF ReadConfig, WriteBackup, WriteTemp, Rename, files, smoke, rest
  <2> QED  BY <2>1, <2>2, <2>3, <2>4 DEF AiNext, TargetLists
<1> QED  BY <1>1, <1>2, <1>3, <1>4, <1>5, <1>6, <1>7

\* What a rename is about to write is sound.
LEMMA ReplacementIsSound ==
  ASSUME AiInv, aiStep = "rename"
  PROVE  Replacement(Target) \in Settings(Target)
<1>1. Target \in Targets /\ op.op \in {"scope", "overlay", "rollback"}
  BY OnTarget DEF AiInv, Course, Applying
<1>2. CASE op.op = "rollback"
  BY <1>2 DEF AiInv, Sound, Replacement
<1>3. CASE op.op = "scope"
  <2>1. current \in Settings(Target) /\ input.pass \subseteq proven
    BY <1>3 DEF AiInv, Sound, Evident
  <2>2. Replacement(Target) = Scoped(Target, current, input)
    BY <1>3 DEF Replacement
  <2> QED  BY <1>1, <2>1, <2>2 DEF Scoped, Settings, Targets
<1>4. CASE op.op = "overlay"
  <2>1. current \in Settings(Target) /\ Refs(overlay[Target]) \subseteq proven
    BY <1>4 DEF AiInv, Sound, Applying
  <2>2. Replacement(Target) = Overlaid(Target, current, overlay[Target])
    BY <1>4 DEF Replacement
  <2> QED  BY <1>1, <2>1, <2>2 DEF Overlaid, Settings, Refs
<1> QED  BY <1>1, <1>2, <1>3, <1>4

\* Settings that no command is changing stay sound while probes run.
LEMMA SoundStays ==
  ASSUME AiInv, proven \subseteq proven', config' = config, saved' = saved,
         aiStep' \in {"backup", "temp", "rename"} =>
           UNCHANGED <<op, todo, current>>
             /\ aiStep \in {"backup", "temp", "rename"},
         aiStep' \in Applying /\ op'.op = "overlay" =>
           UNCHANGED <<op, todo, overlay>> /\ aiStep \in Applying
  PROVE  Sound'
<1>1. \A t \in Targets : Settings(t) \subseteq Settings(t)'  BY SettingsGrow
<1>2. config' \in [Targets -> UNION {Settings(t)' : t \in Targets}]
  <2>1. \A t \in Targets : config[t] \in Settings(t)'
    BY <1>1 DEF AiInv, Sound
  <2>2. config = [t \in Targets |-> config[t]]  BY DEF AiInv, Sound
  <2> QED  BY <2>1, <2>2
<1>3. \A t \in Targets : config'[t] \in Settings(t)'
  BY <1>1 DEF AiInv, Sound
<1>4. \A b \in saved' : b.of \in Targets /\ b.content \in Settings(b.of)'
  BY <1>1 DEF AiInv, Sound
<1>5. ASSUME aiStep' \in {"backup", "temp", "rename"}
      PROVE  IF op'.op = "rollback" THEN op'.from \in Settings(Target)'
             ELSE current' \in Settings(Target)'
  <2>1. Target \in Targets /\ Target' = Target
    BY <1>5, OnTarget DEF AiInv, Applying, Target
  <2> QED
    BY <1>1, <1>5, <2>1 DEF AiInv, Sound, Settings
<1>6. aiStep' \in Applying /\ op'.op = "overlay" =>
        Refs(overlay[Target])' \subseteq proven'
  BY DEF AiInv, Sound, Refs, Target
<1> QED  BY <1>2, <1>3, <1>4, <1>5, <1>6 DEF Sound

\* No step brings anything unproven into the settings, a backup or a plan of
\* what to write.
LEMMA SoundStep == AiInv /\ [AiNext]_aiVars => Sound'
<1> SUFFICES ASSUME AiInv, [AiNext]_aiVars PROVE Sound'  OBVIOUS
<1>1. CASE \/ \E targets \in TargetLists, source \in Sources :
                ApplyScope(targets, source)
           \/ \E t \in Targets, source \in Sources : ApplyOverlay(t, source)
           \/ \E source \in Sources, preset \in BOOLEAN :
                MakePlan(source, preset)
  <2>1. /\ aiStep' \in {"evidence", "precheck"} /\ config' = config
        /\ saved' = saved /\ proven' = proven
    BY <1>1 DEF ApplyScope, ApplyOverlay, MakePlan, Start, files
  <2> QED  BY <2>1, SoundStays DEF Applying
<1>2. CASE \E t \in Targets : Rollback(t)
  <2>1. PICK t \in Targets : Rollback(t)  BY <1>2
  <2>2. PICK b \in saved : b.of = t /\
          Start([Idle EXCEPT !.op = "rollback", !.from = b.content], "backup",
                <<t>>)
    BY <2>1 DEF Rollback
  <2>3. /\ config' = config /\ saved' = saved /\ proven' = proven
        /\ aiStep' = "backup" /\ todo' = <<t>>
        /\ op'.op = "rollback" /\ op'.from = b.content
    BY <2>2 DEF Start, files, Idle
  <2>4. Target' = t  BY <2>3 DEF Target
  <2>5. \A u \in Targets : Settings(u)' = Settings(u)
    BY <2>3 DEF Settings
  <2>6. op'.from \in Settings(Target)'
    BY <2>2, <2>3, <2>4 DEF AiInv, Sound, Settings
  <2> QED  BY <2>3, <2>5, <2>6 DEF AiInv, Sound
<1>3. CASE Stop /\ UNCHANGED <<config, saved, proven>>
  BY <1>3, SoundStays DEF Stop, Applying
<1>4. CASE ReadEvidence \/ CheckPlanEvidence
  <2>1. CASE ~Stop
    <3>1. /\ aiStep' \in {"plan", "recheck", "evidence"} /\ config' = config
          /\ saved' = saved /\ proven' = proven
      BY <1>4, <2>1 DEF ReadEvidence, CheckPlanEvidence, GotoStep, files, rest
    <3> QED  BY <3>1, SoundStays DEF Applying
  <2>2. UNCHANGED <<config, saved, proven>>
    BY <1>4 DEF ReadEvidence, CheckPlanEvidence, files, rest
  <2> QED  BY <1>3, <2>1, <2>2
<1>5. CASE CheckEvidence
  <2>1. UNCHANGED <<config, saved, proven, overlay>>
    BY <1>5 DEF CheckEvidence, files, rest
  <2>2. CASE ~Stop
    <3>1. /\ Missing = {} /\ aiStep' = "config" /\ op' = op /\ todo' = todo
          /\ input.pass \subseteq proven
      BY <1>5, <2>2 DEF CheckEvidence, GotoStep, AiInv, Evident
    <3>2. op'.op = "overlay" => Refs(overlay[Target])' \subseteq proven'
      BY <2>1, <3>1 DEF Missing, Target, Refs
    <3>3. \A u \in Targets : Settings(u)' = Settings(u)
      BY <2>1 DEF Settings
    <3>4. \A b \in saved' : b.of \in Targets /\ b.content \in Settings(b.of)'
      BY <2>1, <3>3 DEF AiInv, Sound
    <3> QED  BY <2>1, <3>1, <3>2, <3>3, <3>4 DEF AiInv, Sound
  <2> QED  BY <1>3, <2>1, <2>2
<1>6. CASE SavePlan \/ Die
  BY <1>3, <1>6 DEF SavePlan, Die, files, rest
<1>7. CASE ReadConfig
  <2>1. UNCHANGED <<config, saved, proven, overlay>>
    BY <1>7 DEF ReadConfig, files, rest
  <2>2. CASE ~Stop
    <3>1. /\ aiStep' = "backup" /\ op' = op /\ todo' = todo
          /\ current' = config[Target] /\ aiStep = "config"
      BY <1>7, <2>2 DEF ReadConfig, GotoStep
    <3>2. Target \in Targets /\ Target' = Target /\ op.op # "rollback"
      BY <3>1, OnTarget DEF AiInv, Course, Applying, Target
    <3>3. \A u \in Targets : Settings(u)' = Settings(u)
      BY <2>1 DEF Settings
    <3>4. current' \in Settings(Target)'
      BY <3>1, <3>2, <2>1 DEF AiInv, Sound, Settings
    <3>5. op'.op = "overlay" => Refs(overlay[Target])' \subseteq proven'
      BY <2>1, <3>1, <3>2 DEF AiInv, Sound, Applying, Refs
    <3>6. \A b \in saved' : b.of \in Targets /\ b.content \in Settings(b.of)'
      BY <2>1, <3>3 DEF AiInv, Sound
    <3> QED
      BY <2>1, <3>1, <3>2, <3>3, <3>4, <3>5, <3>6 DEF AiInv, Sound
  <2> QED  BY <1>3, <2>1, <2>2
<1>8. CASE WriteBackup
  <2>1. UNCHANGED <<config, proven, overlay>>
    BY <1>8 DEF WriteBackup, rest
  <2>2. CASE NameTaken
    BY <1>3, <1>8, <2>1, <2>2 DEF WriteBackup
  <2>3. CASE ~NameTaken
    <3>1. /\ saved' = saved \cup {Backup(config[Target])} /\ aiStep' = "temp"
          /\ UNCHANGED <<op, todo, current>> /\ aiStep = "backup"
      BY <1>8, <2>3 DEF WriteBackup, GotoStep, Original
    <3>2. Target \in Targets /\ Target' = Target
      BY <3>1, OnTarget DEF AiInv, Applying, Target
    <3>3. \A u \in Targets : Settings(u)' = Settings(u)
      BY <2>1 DEF Settings
    <3>4. \A b \in saved' : b.of \in Targets /\ b.content \in Settings(b.of)'
      <4>1. Backup(config[Target]).of = Target
            /\ Backup(config[Target]).content = config[Target]
        BY DEF Backup
      <4> QED  BY <3>1, <3>2, <3>3, <4>1 DEF AiInv, Sound
    <3>5. IF op'.op = "rollback" THEN op'.from \in Settings(Target)'
          ELSE current' \in Settings(Target)'
      BY <2>1, <3>1, <3>2 DEF AiInv, Sound, Settings
    <3>6. op'.op = "overlay" => Refs(overlay[Target])' \subseteq proven'
      BY <2>1, <3>1, <3>2 DEF AiInv, Sound, Applying, Refs
    <3> QED  BY <2>1, <3>1, <3>3, <3>4, <3>5, <3>6 DEF AiInv, Sound
  <2> QED  BY <2>2, <2>3
<1>9. CASE WriteTemp
  <2>1. UNCHANGED <<config, saved, proven, overlay>>
    BY <1>9 DEF WriteTemp, rest
  <2>2. CASE ~Stop
    <3>1. aiStep' = "rename" /\ UNCHANGED <<op, todo, current>> /\ aiStep = "temp"
      BY <1>9, <2>2 DEF WriteTemp, GotoStep
    <3> QED  BY <2>1, <3>1, SoundStays DEF Applying
  <2> QED  BY <1>3, <2>1, <2>2
<1>10. CASE Rename
  <2>1. /\ UNCHANGED <<saved, proven, overlay>> /\ aiStep = "rename"
        /\ config' = [config EXCEPT ![Target] = Replacement(Target)]
        /\ Replacement(Target) \in Settings(Target) /\ Target \in Targets
    BY <1>10, ReplacementIsSound, OnTarget DEF Rename, rest, AiInv, Applying
  <2>2. \A u \in Targets : Settings(u)' = Settings(u)
    BY <2>1 DEF Settings
  <2>3. /\ \A t \in Targets : config'[t] \in Settings(t)
        /\ DOMAIN config' = Targets /\ config' = [t \in Targets |-> config'[t]]
    BY <2>1 DEF AiInv, Sound
  <2>4. config' \in [Targets -> UNION {Settings(t)' : t \in Targets}]
    BY <2>2, <2>3
  <2>5. \A b \in saved' : b.of \in Targets /\ b.content \in Settings(b.of)'
    BY <2>1, <2>2 DEF AiInv, Sound
  <2>6. aiStep' \notin {"backup", "temp", "rename"}
    BY <1>10 DEF Rename, Stop, GotoStep
  <2>7. op'.op = "overlay" => aiStep' = "idle"
    <3>1. CASE Stop  BY <3>1 DEF Stop
    <3>2. CASE ~Stop
      <4>1. Len(todo) > 1 /\ op' = op  BY <1>10, <3>2 DEF Rename
      <4>2. Len(todo) # 1
        <5>1. aiStep = "rename"  BY <2>1
        <5>2. todo \in TargetLists  BY <5>1 DEF AiInv, Course, Applying
        <5> QED  BY <4>1, <5>2, Lists, Zenon
      <4>3. op.op \notin {"overlay", "rollback"}
        BY <4>2, Zenon DEF AiInv, Course
      <4> QED  BY <4>1, <4>3
    <3> QED  BY <3>1, <3>2
  <2> QED
    BY <2>2, <2>3, <2>4, <2>5, <2>6, <2>7 DEF Sound, Applying
<1>11. CASE \E targets \in SUBSET Targets \ {{}} : Export(targets)
  <2>1. UNCHANGED <<config, saved, proven, op, aiStep>> /\ aiStep = "idle"
    BY <1>11 DEF Export, command
  <2> QED  BY <2>1, SoundStays DEF Applying
<1>12. CASE \E t \in Targets, n \in Notes : AiUserEdits(t, n)
  <2>1. PICK t \in Targets, n \in Notes : AiUserEdits(t, n)  BY <1>12
  <2>2. /\ UNCHANGED <<saved, proven, overlay, op, aiStep, todo, current>>
        /\ config' = [config EXCEPT ![t] =
                        [config[t] EXCEPT !.notes = config[t].notes \cup {n}]]
    BY <2>1 DEF AiUserEdits, command
  <2>3. \A u \in Targets : Settings(u)' = Settings(u)
    BY <2>2 DEF Settings
  <2>4. [config[t] EXCEPT !.notes = config[t].notes \cup {n}] \in Settings(t)
    BY DEF AiInv, Sound, Settings
  <2>5. /\ \A u \in Targets : config'[u] \in Settings(u)
        /\ DOMAIN config' = Targets /\ config' = [u \in Targets |-> config'[u]]
    BY <2>2, <2>4 DEF AiInv, Sound
  <2>6. config' \in [Targets -> UNION {Settings(u)' : u \in Targets}]
    BY <2>3, <2>5
  <2>7. \A b \in saved' : b.of \in Targets /\ b.content \in Settings(b.of)'
    BY <2>2, <2>3 DEF AiInv, Sound
  <2>8. aiStep' \in {"backup", "temp", "rename"} =>
          IF op'.op = "rollback" THEN op'.from \in Settings(Target)'
          ELSE current' \in Settings(Target)'
    BY <2>2 DEF AiInv, Sound, Settings, Target
  <2>9. aiStep' \in Applying /\ op'.op = "overlay" =>
          Refs(overlay[Target])' \subseteq proven'
    BY <2>2 DEF AiInv, Sound, Refs, Target
  <2> QED  BY <2>3, <2>5, <2>6, <2>7, <2>8, <2>9 DEF Sound
<1>13. CASE \/ \E m \in Models, status \in {"all", "failed"}, local \in BOOLEAN :
                 StartProbe(m, status, local)
            \/ TimerFires \/ \E exitCode \in {0, 1} : ProbeCloses(exitCode)
            \/ WriteReport \/ WritePassList \/ DryRunReport
            \/ Tick \/ UNCHANGED aiVars
  <2>1. /\ UNCHANGED <<config, saved, overlay, op, aiStep, todo, current>>
        /\ proven \subseteq proven'
    BY <1>13 DEF StartProbe, TimerFires, ProbeCloses, WriteReport,
         WritePassList, DryRunReport, Tick, aiVars, files, command, rest
  <2> QED  BY <2>1, SoundStays
<1> QED
  BY <1>1, <1>2, <1>4, <1>5, <1>6, <1>7, <1>8, <1>9, <1>10, <1>11, <1>12,
     <1>13 DEF AiNext, TargetLists

\* A backup more holds its notes more.
LEMMA KeptGrows ==
  ASSUME NEW b, saved' = saved \cup {b}, NEW t \in Targets
  PROVE  /\ Kept(t) \subseteq Kept(t)'
         /\ b.of = t => b.content.notes \subseteq Kept(t)'
BY DEF Kept

LEMMA KeptStays ==
  ASSUME saved' = saved
  PROVE  \A t \in Targets : Kept(t)' = Kept(t)
BY DEF Kept

\* Where neither the settings nor the backups change, what is owed is kept.
LEMMA OwedStays ==
  ASSUME AiInv, UNCHANGED <<config, saved, notesOwed>>,
         aiStep' \in {"temp", "rename"} =>
           aiStep \in {"temp", "rename"} /\ todo' = todo
  PROVE  Owed'
<1>1. \A t \in Targets : Kept(t)' = Kept(t)  BY KeptStays
<1>2. aiStep' \in {"temp", "rename"} => Target \in Targets /\ Target' = Target
  BY OnTarget DEF AiInv, Applying, Target
<1> QED  BY <1>1, <1>2 DEF AiInv, Owed

\* A note leaves the settings only once a backup has it.
LEMMA OwedStep == AiInv /\ [AiNext]_aiVars => Owed'
<1> SUFFICES ASSUME AiInv, [AiNext]_aiVars PROVE Owed'  OBVIOUS
<1>1. CASE \/ \E targets \in TargetLists, source \in Sources :
                ApplyScope(targets, source)
           \/ \E t \in Targets, source \in Sources : ApplyOverlay(t, source)
           \/ \E t \in Targets : Rollback(t)
           \/ \E source \in Sources, preset \in BOOLEAN :
                MakePlan(source, preset)
  <2>1. /\ UNCHANGED <<config, saved, notesOwed>>
        /\ aiStep' \in {"evidence", "precheck", "backup"}
    BY <1>1 DEF ApplyScope, ApplyOverlay, Rollback, MakePlan, Start, files
  <2> QED  BY <2>1, OwedStays
<1>2. CASE \/ ReadEvidence \/ CheckPlanEvidence \/ CheckEvidence \/ SavePlan
           \/ ReadConfig \/ Die
  <2>1. /\ UNCHANGED <<config, saved, notesOwed>>
        /\ aiStep' \notin {"temp", "rename"}
    BY <1>2 DEF ReadEvidence, CheckPlanEvidence, CheckEvidence, SavePlan,
         ReadConfig, Die, Stop, GotoStep, files, rest
  <2> QED  BY <2>1, OwedStays
<1>3. CASE WriteTemp
  <2>1. /\ UNCHANGED <<config, saved, notesOwed>> /\ aiStep = "temp"
        /\ aiStep' = "rename" => todo' = todo
    BY <1>3 DEF WriteTemp, Stop, GotoStep, rest
  <2>2. aiStep' \in {"idle", "rename"}  BY <1>3 DEF WriteTemp, Stop, GotoStep
  <2> QED  BY <2>1, <2>2, OwedStays
<1>4. CASE WriteBackup
  <2>1. UNCHANGED <<config, notesOwed>> /\ aiStep = "backup"
    BY <1>4 DEF WriteBackup, rest
  <2>2. CASE NameTaken
    BY <1>4, <2>1, <2>2, OwedStays DEF WriteBackup, Stop
  <2>3. CASE ~NameTaken
    <3> DEFINE b == Backup(config[Target])
    <3>1. saved' = saved \cup {b} /\ todo' = todo
      BY <1>4, <2>3 DEF WriteBackup, GotoStep, Original
    <3>2. b.of = Target /\ b.content = config[Target]  BY DEF Backup
    <3>3. Target \in Targets /\ Target' = Target
      BY <2>1, <3>1, OnTarget DEF AiInv, Applying, Target
    <3> HIDE DEF b
    <3>4. \A t \in Targets : Kept(t) \subseteq Kept(t)'
      BY <3>1, KeptGrows
    <3>5. config[Target].notes \subseteq Kept(Target)'
      <4>1. PICK t \in Targets : t = Target  BY <3>3
      <4>2. config[t].notes \subseteq Kept(t)'
        BY <3>1, <3>2, <4>1, KeptGrows
      <4> QED  BY <3>3, <4>1, <4>2 DEF Kept
    <3>6. notesOwed'[Target] \subseteq Kept(Target)'
      BY <2>1, <3>3, <3>4, <3>5 DEF AiInv, Owed, Kept
    <3> QED  BY <2>1, <3>3, <3>4, <3>6 DEF AiInv, Owed
  <2> QED  BY <2>2, <2>3
<1>5. CASE Rename
  <2>1. /\ UNCHANGED <<saved, notesOwed>> /\ aiStep = "rename"
        /\ config' = [config EXCEPT ![Target] = Replacement(Target)]
        /\ aiStep' \notin {"temp", "rename"}
    BY <1>5 DEF Rename, Stop, GotoStep, rest
  <2>2. Target \in Targets /\ notesOwed[Target] \subseteq Kept(Target)
    BY <2>1, OnTarget DEF AiInv, Applying, Owed
  <2>3. \A t \in Targets : Kept(t)' = Kept(t)  BY <2>1, KeptStays
  <2>4. \A t \in Targets : t # Target => config'[t] = config[t]
    BY <2>1 DEF AiInv, Sound
  <2> QED  BY <2>1, <2>2, <2>3, <2>4 DEF AiInv, Owed
<1>6. CASE \E t \in Targets, n \in Notes : AiUserEdits(t, n)
  <2>1. PICK t \in Targets, n \in Notes : AiUserEdits(t, n)  BY <1>6
  <2>2. /\ UNCHANGED <<saved, aiStep, todo>>
        /\ config' = [config EXCEPT ![t] =
                        [config[t] EXCEPT !.notes = config[t].notes \cup {n}]]
        /\ notesOwed' = [notesOwed EXCEPT ![t] =
             IF InGap(t) THEN notesOwed[t] ELSE notesOwed[t] \cup {n}]
    BY <2>1 DEF AiUserEdits, command
  <2>3. \A u \in Targets : Kept(u)' = Kept(u)  BY <2>2, KeptStays
  <2>4. /\ config'[t].notes = config[t].notes \cup {n}
        /\ \A u \in Targets : u # t => config'[u] = config[u]
    <3>1. config[t] \in Settings(t)  BY DEF AiInv, Sound
    <3>2. [config[t] EXCEPT !.notes = config[t].notes \cup {n}].notes
            = config[t].notes \cup {n}
      BY <3>1 DEF Settings
    <3>3. config'[t] = [config[t] EXCEPT !.notes = config[t].notes \cup {n}]
      BY <2>2 DEF AiInv, Sound
    <3>4. \A u \in Targets : u # t => config'[u] = config[u]
      BY <2>2 DEF AiInv, Sound
    <3> QED  BY <3>2, <3>3, <3>4
  <2>5. /\ notesOwed' \in [Targets -> SUBSET Notes]
        /\ notesOwed'[t] \subseteq notesOwed[t] \cup {n}
        /\ InGap(t) => notesOwed'[t] = notesOwed[t]
        /\ \A u \in Targets : u # t => notesOwed'[u] = notesOwed[u]
    BY <2>2 DEF AiInv, Owed
  <2>6. aiStep \in {"temp", "rename"} =>
          /\ Target \in Targets /\ Target' = Target
          /\ Target = t => InGap(t)
    BY <2>2, OnTarget DEF AiInv, Applying, Target, InGap
  <2>7. \A u \in Targets : notesOwed'[u] \subseteq config'[u].notes \cup Kept(u)
    BY <2>4, <2>5 DEF AiInv, Owed
  <2>8. aiStep \in {"temp", "rename"} => notesOwed'[Target] \subseteq Kept(Target)
    BY <2>5, <2>6 DEF AiInv, Owed
  <2> QED  BY <2>2, <2>3, <2>5, <2>6, <2>7, <2>8 DEF Owed
<1>7. CASE \/ \E targets \in SUBSET Targets \ {{}} : Export(targets)
           \/ \E m \in Models, status \in {"all", "failed"}, local \in BOOLEAN :
                StartProbe(m, status, local)
           \/ TimerFires \/ \E exitCode \in {0, 1} : ProbeCloses(exitCode)
           \/ WriteReport \/ WritePassList \/ DryRunReport
           \/ Tick \/ UNCHANGED aiVars
  <2>1. UNCHANGED <<config, saved, notesOwed, aiStep, todo>>
    BY <1>7 DEF Export, StartProbe, TimerFires, ProbeCloses, WriteReport,
         WritePassList, DryRunReport, Tick, aiVars, files, command, rest
  <2> QED  BY <2>1, OwedStays
<1> QED
  BY <1>1, <1>2, <1>3, <1>4, <1>5, <1>6, <1>7 DEF AiNext, TargetLists

\* The commands start with nothing in hand and nothing unproven.
LEMMA AiStarts == AiInit => AiInv
<1> SUFFICES ASSUME AiInit PROVE AiInv  OBVIOUS
<1>1. Course  BY DEF AiInit, Course, Applying, Idle
<1>2. Evident  BY DEF AiInit, Evident, Passing, NoInput
<1>3. PICK p \in {{"provider", "agent"}, {}} :
        config = [pi |-> [models |-> {}, routes |-> {}, notes |-> {},
                          parts |-> {}],
                  opencode |-> [models |-> Models, routes |-> {},
                                notes |-> {}, parts |-> p]]
  BY DEF AiInit
<1>4. config["pi"] \in Settings("pi")
  BY <1>3 DEF Settings
<1>5. config["opencode"] \in Settings("opencode")
  BY <1>3 DEF Settings
<1>6. DOMAIN config = Targets /\ config = [t \in Targets |-> config[t]]
  BY <1>3 DEF Targets
<1>7. \A t \in Targets : config[t] \in Settings(t)
  BY <1>4, <1>5 DEF Targets
<1>8. config \in [Targets -> UNION {Settings(t) : t \in Targets}]
  BY <1>6, <1>7
<1>9. Sound  BY <1>7, <1>8 DEF AiInit, Sound, Applying
<1>10. Owed  BY DEF AiInit, Owed
<1> QED  BY <1>1, <1>2, <1>9, <1>10 DEF AiInv

LEMMA AiInductive == AiInv /\ [AiNext]_aiVars => AiInv'
BY CourseStep, EvidenceStep, SoundStep, OwedStep DEF AiInv

\* Nothing is enabled in Pi or routed in a runtime that no probe saw pass, for
\* any models, evidence, overlays and number of commands (ai-provider-scope.ts:
\* 166-192, ai-provider-profile-apply.ts:252-266).
THEOREM NothingUnprovenIsRouted == AiSpec => []OnlyProven
<1>1. AiInit => AiInv  BY AiStarts
<1>2. AiInv /\ [AiNext]_aiVars => AiInv'  BY AiInductive
<1>3. AiInv => OnlyProven
  <2> SUFFICES ASSUME AiInv PROVE OnlyProven  OBVIOUS
  <2>1. \A t \in Targets : config[t] \in Settings(t)  BY DEF AiInv, Sound
  <2>2. config["pi"].models \subseteq proven
    BY <2>1 DEF Settings, Targets
  <2>3. \A t \in Targets : config[t].routes \subseteq proven
    BY <2>1 DEF Settings
  <2> QED  BY <2>2, <2>3 DEF OnlyProven
<1> QED  BY <1>1, <1>2, <1>3, PTL DEF AiSpec

\* What a user wrote into a settings file is there or in a backup of it, for any
\* sequence of commands, deaths and edits (ai-provider-scope.ts:218-236).
THEOREM NotesAreKept == AiSpec => []EditsKept
<1>1. AiInit => AiInv  BY AiStarts
<1>2. AiInv /\ [AiNext]_aiVars => AiInv'  BY AiInductive
<1>3. AiInv => EditsKept  BY DEF AiInv, Owed, Kept, EditsKept
<1> QED  BY <1>1, <1>2, <1>3, PTL DEF AiSpec
=============================================================================
