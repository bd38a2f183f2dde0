------------------------------- MODULE PosixAcl -------------------------------
(***************************************************************************)
(* The proofs of the POSIX adapter about one directory: who may write to   *)
(* it, by its owner, its mode and what getfacl prints of its access list   *)
(* (src/src/lib/secure-fs-posix.ts).                                       *)
(***************************************************************************)
EXTENDS Integers, Sequences

Users == {"root", "self", "other"}   \* self: the effective uid

VARIABLES
  dir,      \* what the directory is: its owner, its mode, its access list
  printed,  \* what came of the last getfacl
  owner,    \* what the lstat of the owner said
  verdict   \* what the last proof said

aclVars == <<dir, printed, owner, verdict>>

\* The lines of getfacl: kind, whom, and whether it grants writing.
Line(kind, id, w) == [kind |-> kind, id |-> id, w |-> w]
Kinds == {"base", "user", "group", "mask", "default", "odd"}

\* A directory has a mask whenever it has a named entry; its group bits then
\* show the mask, as POSIX.1e has it.
Dirs == [owner : Users, group : BOOLEAN, others : BOOLEAN,
         user : Users \cup {"none"}, userW : BOOLEAN,
         named : BOOLEAN, namedW : BOOLEAN,
         mask : {"none", "r", "w"}, inherits : BOOLEAN]
Real(d) == /\ d.user # "none" \/ d.named => d.mask # "none"
           /\ d.user = "none" => ~d.userW
           /\ ~d.named => ~d.namedW
           /\ d.mask # "none" => d.group = (d.mask = "w")

\* What getfacl prints of it, in its order: the mask after what it masks.
If(condition, line) == IF condition THEN <<line>> ELSE <<>>
Listing(d) == <<Line("base", "owner", TRUE)>>
              \o If(d.user # "none", Line("user", d.user, d.userW))
              \o <<Line("base", "group", d.group)>>
              \o If(d.named, Line("group", "staff", d.namedW))
              \o If(d.mask # "none", Line("mask", "", d.mask = "w"))
              \o <<Line("base", "others", d.others)>>
              \o If(d.inherits, Line("default", "", TRUE))

-----------------------------------------------------------------------------

Nothing == [ran |-> "no", lines |-> <<>>]
Failures == {"absent", "timeout", "exit", "flood"}

\* Whose writing the lenient proof overlooks.
Trusted(ownerUid) == {ownerUid, "root", "self"}

\* The first pass of classifyEndangering.
MaskFor(lines) ==
  {lines[j] : j \in {k \in DOMAIN lines : lines[k].kind = "mask"}}

\* checkNamed: without a mask a grant cannot be told from none.
Tolerated(lines, i, trusted) ==
  LET line == lines[i]
      masks == MaskFor(lines)
  IN \/ line.kind \in {"base", "mask", "default"}
     \/ /\ line.kind \in {"user", "group"}
        /\ \/ ~line.w
           \/ masks # {} /\ \A m \in masks : ~m.w
           \/ masks # {} /\ line.kind = "user" /\ line.id \in trusted
Harmless(lines, trusted) ==
  \A i \in DOMAIN lines : Tolerated(lines, i, trusted)
\* proveClean: nothing but the entries every file has.
Clean(lines) == \A i \in DOMAIN lines : lines[i].kind = "base"

\* Slip: only the write bit of the others is looked at.
SlipOwnedAndClosed(d) == d.owner \in {"root", "self"} /\ ~d.others
\* proveOwnershipAndMode, ownershipTrusted.
OwnedAndClosed(d) ==
  d.owner \in {"root", "self"} /\ ~d.group /\ ~d.others

AclStart == /\ dir \in {d \in Dirs : Real(d)}
            /\ printed = Nothing
            /\ owner = "unread"
            /\ verdict = "none"
AclStill == /\ dir = [owner |-> "self", group |-> FALSE, others |-> FALSE,
                      user |-> "none", userW |-> FALSE, named |-> FALSE,
                      namedW |-> FALSE, mask |-> "none", inherits |-> FALSE]
            /\ printed = Nothing
            /\ owner = "unread"
            /\ verdict = "none"

\* runGetfacl: it runs, prints what aclEntries cannot read, or does not run.
Getfacl ==
  /\ printed = Nothing
  /\ \/ printed' = [ran |-> "yes", lines |-> Listing(dir)]
     \/ printed' = [ran |-> "yes",
                    lines |-> Append(Listing(dir), Line("odd", "", FALSE))]
     \/ \E failure \in Failures :
          printed' = [ran |-> failure, lines |-> <<>>]
  /\ UNCHANGED <<dir, owner, verdict>>
\* The lstat of the owner, which may fail.
StatOwner == /\ printed.ran = "yes" /\ owner = "unread"
             /\ owner' \in {dir.owner, "unknown"}
             /\ UNCHANGED <<dir, printed, verdict>>

\* The transaction asks for both of an ancestor it opens ...
ProveAncestor ==
  /\ printed # Nothing
  /\ printed.ran = "yes" => owner # "unread"
  /\ verdict' = IF /\ printed.ran = "yes"
                   /\ owner # "unknown"
                   /\ OwnedAndClosed(dir)
                   /\ Harmless(printed.lines, Trusted(owner))
                THEN "ancestor" ELSE "refused"
  /\ UNCHANGED <<dir, printed, owner>>
\* ... and of a container of its own proveManagedContainer.
ProveContainer ==
  /\ printed # Nothing
  /\ verdict' = IF /\ OwnedAndClosed(dir)
                   /\ printed.ran = "yes"
                   /\ Clean(printed.lines)
                THEN "container" ELSE "refused"
  /\ UNCHANGED <<dir, printed, owner>>
\* The access list alone, as proveNoEndangeringAcl is asked for it.
ProveList ==
  /\ printed # Nothing
  /\ printed.ran = "yes" => owner # "unread"
  /\ verdict' = IF /\ printed.ran = "yes" /\ owner # "unknown"
                   /\ Harmless(printed.lines, Trusted(owner))
                THEN "list" ELSE "list-refused"
  /\ UNCHANGED <<dir, printed, owner>>

AclNext == \/ Getfacl \/ StatOwner
           \/ ProveAncestor \/ ProveContainer \/ ProveList
AclSpec == AclStart /\ [][AclNext]_aclVars

-----------------------------------------------------------------------------

\* Who may really write, by the rules of the kernel.
Writers(d) ==
  {d.owner}
  \cup (IF d.userW /\ d.mask = "w" THEN {d.user} ELSE {})
  \cup (IF d.namedW /\ d.mask = "w" THEN {"staff"} ELSE {})
  \cup (IF d.group /\ d.mask = "none" THEN {"group"} ELSE {})
  \cup (IF d.others THEN {"others"} ELSE {})

\* A directory that was proven can be written to by root and by the user
\* alone, whatever getfacl did
\* (secure-fs-posix.ts:4-8 "any inconclusive result refuses").
ProvenIsPrivate ==
  verdict \in {"ancestor", "container"} =>
    Writers(dir) \subseteq {"root", "self"}

\* The lenient proof refuses a list only for a stranger who may write by it,
\* or for want of a reading: a mask that takes the writing away is heeded
\* wherever it is printed (:67-75 and 200-252).
LenientIsExact ==
  verdict = "list-refused" =>
    \/ printed.ran # "yes" \/ owner = "unknown"
    \/ \E i \in DOMAIN printed.lines : printed.lines[i].kind = "odd"
    \/ \E w \in Writers(dir) :
         w \notin {dir.owner, "root", "self", "group", "others"}

\* Both proofs of a directory say what its list says.
AclIsHonest == ProvenIsPrivate /\ LenientIsExact
=============================================================================
