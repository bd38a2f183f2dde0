---------------------------- MODULE MCPreparation ----------------------------
(***************************************************************************)
(* Two executions and one revocation: they share an approval, or the second*)
(* execution has one of its own.                                           *)
(***************************************************************************)
EXTENDS Preparation, TLC

CONSTANTS r1, r2, v1, n1, n2

TwoRuns == {r1, r2}
OneRun == {r1}
OneRevoker == {v1}
Approvals == {n1, n2}

Shared == {r1 :> n1 @@ r2 :> n1 @@ v1 :> n1}
Mixed == Shared \cup {r1 :> n1 @@ r2 :> n2 @@ v1 :> n1}

Alone == {r1 :> n1 @@ v1 :> n1}
=============================================================================
