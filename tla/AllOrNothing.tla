---------------------------- MODULE AllOrNothing ----------------------------
(***************************************************************************)
(* What a caller of runTransaction is promised: the writes are published   *)
(* in order, and the run ends with all of them in place, with all of them  *)
(* withdrawn, or with a plain request to recover by hand.  A slot somebody *)
(* else wrote in the meantime is theirs.                                   *)
(***************************************************************************)
EXTENDS Integers

CONSTANT Slots      \* 1..n, in commit order

VARIABLES
  job,    \* per slot: "skip", "write", or "final" (a write with no way back)
  slot,   \* per slot: "before", "after" or "theirs"
  phase   \* "forward", "backward", "installed", "restored" or "manual"

vars == <<job, slot, phase>>

Ended == phase \in {"installed", "restored", "manual"}
ToWrite == {s \in Slots : job[s] # "skip"}

Init ==
  /\ job \in [Slots -> {"skip", "write", "final"}]
  /\ slot = [s \in Slots |-> "before"]
  /\ phase = "forward"

\* The publication itself may be what fails.
Publish(s) ==
  /\ phase = "forward" /\ s \in ToWrite /\ slot[s] = "before"
  /\ \A e \in ToWrite : e < s => slot[e] # "before"
  /\ slot' = [slot EXCEPT ![s] = "after"]
  /\ phase' \in {"forward", "backward", "manual"}
  /\ UNCHANGED job

TurnBack ==
  /\ phase = "forward" /\ phase' = "backward"
  /\ UNCHANGED <<job, slot>>

Withdraw(s) ==
  /\ phase = "backward" /\ job[s] = "write" /\ slot[s] = "after"
  /\ \A e \in ToWrite : e > s /\ job[e] = "write" => slot[e] # "after"
  /\ slot' = [slot EXCEPT ![s] = "before"]
  /\ phase' \in {"backward", "manual"}
  /\ UNCHANGED job

Theirs(s) ==
  /\ slot' = [slot EXCEPT ![s] = "theirs"]
  /\ UNCHANGED <<job, phase>>

Conclude ==
  /\ ~Ended
  /\ \/ /\ phase = "forward" /\ phase' = "installed"
        /\ \A s \in ToWrite : slot[s] # "before"
     \/ /\ phase = "backward" /\ phase' = "restored"
        /\ \A s \in ToWrite : job[s] = "write" => slot[s] # "after"
     \/ phase' = "manual"
  /\ UNCHANGED <<job, slot>>

Next ==
  \/ \E s \in Slots : Publish(s) \/ Withdraw(s) \/ Theirs(s)
  \/ TurnBack \/ Conclude

Spec == Init /\ [][Next]_vars /\ WF_vars(Conclude)

\* Whatever the moment, what is in place has everything before it in place.
InOrder ==
  \A s, e \in ToWrite :
    s < e /\ job[e] = "write" /\ slot[e] = "after" => slot[s] # "before"
=============================================================================
