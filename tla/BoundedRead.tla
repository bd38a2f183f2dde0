------------------------------ MODULE BoundedRead ------------------------------
(***************************************************************************)
(* A bounded read of a text file while another process appends to it or    *)
(* replaces it: in chunks up to a budget of bytes, refusing what looks     *)
(* binary (src/src/lib/safe-read.ts).                                      *)
(***************************************************************************)
EXTENDS Integers, Sequences, SequencesExt

CONSTANTS Budgets, Chunk, Sniff, Largest
\* maxBytes; READ_CHUNK_BYTES; BINARY_SNIFF_BYTES; bound: bytes of a file

ASSUME ReadAssumption ==
  Budgets \subseteq Nat /\ Chunk \in Nat \ {0} /\ Sniff \in Nat

\* A character is the bytes of its UTF-8 form: "a", or a lead and its tail.
Characters == {<<"a">>, <<"lead2", "tail">>, <<"lead3", "tail", "tail">>}
Binary == <<"nul">>
Width(byte) == IF byte = "lead2" THEN 2 ELSE IF byte = "lead3" THEN 3 ELSE 1

VARIABLES
  file,      \* the bytes of the file, or <<"gone">>, <<"directory">>
  budget, hard,       \* the options of the read: hard is 0 for none
  step, size, bytes,  \* the read: what stat said, what was collected
  result,
  longest    \* history: the file as it was when the read reached its end

readVars == <<file, budget, hard, step, size, bytes, result, longest>>

Gone == <<"gone">>
Directory == <<"directory">>
IsFile == file \notin {Gone, Directory}
Least(a, b) == IF a < b THEN a ELSE b
Upto(s, n) == SubSeq(s, 1, Least(n, Len(s)))
From(s, n) == SubSeq(s, n + 1, Len(s))

ReadStill == /\ file = <<>>
             /\ budget = 0 /\ hard = 0
             /\ step = "called"
             /\ size = 0
             /\ bytes = <<>>
             /\ result = [says |-> "none", content |-> <<>>, cut |-> FALSE]
             /\ longest = <<>>
ReadStart == /\ file \in {Gone, Directory, <<>>}
             /\ budget \in Budgets
             /\ hard \in {0, 2}
             /\ step = "called"
             /\ size = 0
             /\ bytes = <<>>
             /\ result = [says |-> "none", content |-> <<>>, cut |-> FALSE]
             /\ longest = <<>>

\* The other process appends at any moment of the read; a file it renames
\* over this one is read only if it is there when this one is opened.
Append1 == /\ IsFile /\ step # "done"
           /\ \E c \in Characters \cup {Binary} :
                /\ Len(file) + Len(c) <= Largest
                /\ file' = file \o c
           /\ UNCHANGED <<budget, hard, step, size, bytes, result, longest>>
Replace == /\ IsFile /\ step # "done" /\ bytes = <<>>
           /\ file' \in {<<>>, <<"a", "a">>}
           /\ UNCHANGED <<budget, hard, step, size, bytes, result, longest>>

Finish(says, content, cut) ==
  /\ step' = "done"
  /\ result' = [says |-> says, content |-> content, cut |-> cut]
  /\ UNCHANGED <<file, budget, hard, size>>

Stat ==
  /\ step = "called"
  /\ IF file = Gone THEN Finish("not-found", <<>>, FALSE)
     ELSE IF file = Directory THEN Finish("not-a-file", <<>>, FALSE)
     ELSE IF hard > 0 /\ Len(file) > hard
     THEN Finish("too-large", <<>>, FALSE)
     ELSE IF budget = 0 THEN Finish("ok", <<>>, file # <<>>)
     ELSE /\ step' = "reading"
          /\ size' = Len(file)
          /\ UNCHANGED <<file, budget, hard, result>>
  /\ UNCHANGED <<bytes, longest>>

\* One chunk, never more than is left of the budget.
ReadChunk ==
  /\ step = "reading" /\ Len(bytes) < budget
  /\ LET chunk == Upto(From(file, Len(bytes)),
                       Least(Chunk, budget - Len(bytes)))
     IN IF bytes = <<>> /\ Contains(Upto(chunk, Sniff), "nul")
        THEN /\ Finish("binary", <<>>, FALSE)
             /\ UNCHANGED <<bytes, longest>>
        ELSE /\ bytes' = bytes \o chunk
             /\ step' = IF chunk = <<>> THEN "ended" ELSE step
             /\ longest' = IF chunk = <<>> THEN file ELSE longest
             /\ UNCHANGED <<file, budget, hard, size, result>>
IoError == /\ step \in {"called", "reading"}
           /\ Finish("io-error", <<>>, FALSE)
           /\ UNCHANGED <<bytes, longest>>

\* trimPartialUtf8: back over at most three bytes to a lead that wants more.
Trim(s) ==
  LET cuts == {i \in 1..Len(s) :
                 /\ i > Len(s) - 3
                 /\ s[i] # "tail"
                 /\ \A j \in (i + 1)..Len(s) : s[j] = "tail"
                 /\ Len(s) - i + 1 < Width(s[i])}
  IN IF cuts = {} THEN s ELSE Upto(s, (CHOOSE i \in cuts : TRUE) - 1)

\* The probe byte: is there really more behind the budget?
Cut == Len(bytes) >= budget /\ Len(file) > Len(bytes)

\* Slip: what was kept is decoded as it is.
SlipDecoded(cut) == bytes
Decoded(cut) == IF cut THEN Trim(bytes) ELSE bytes
Conclude ==
  /\ step = "ended" \/ (step = "reading" /\ Len(bytes) >= budget)
  /\ Finish("ok", Decoded(Cut), Cut)
  /\ longest' = IF step = "ended" THEN longest ELSE file
  /\ UNCHANGED bytes

ReadNext == \/ Append1 \/ Replace
            \/ Stat \/ ReadChunk \/ IoError \/ Conclude
ReadSpec == ReadStart /\ [][ReadNext]_readVars

-----------------------------------------------------------------------------

\* A read that says it is not cut returned every byte the file had when its
\* end was looked at, however the file grew meanwhile; one that was cut is
\* never handed on as whole (safe-read.ts:242-247, 254-274).
UncutIsWhole ==
  result.says = "ok" /\ ~result.cut => Len(result.content) >= Len(longest)

\* A cut falls between characters: what is decoded never ends in the first
\* bytes of one (:94-119).
CutBetweenCharacters ==
  result.cut =>
    \A i \in DOMAIN result.content :
      \/ \E j \in DOMAIN result.content : j > i /\ result.content[j] # "tail"
      \/ Width(result.content[i]) <= Len(result.content) - i + 1

\* A reader can tell what it got: all, or a part that is whole characters.
CutsAreHonest == UncutIsWhole /\ CutBetweenCharacters
=============================================================================
