------------------------- MODULE MCSecureTransaction -------------------------
(***************************************************************************)
(* The default Claude topology for TLC: one gated ancestor, .claude and    *)
(* .claude/hooks; the asset lives in the second, the settings in the first.*)
(***************************************************************************)
EXTENDS SecureTransaction, TLC

HomeClaude == 1 :> 3 @@ 2 :> 2

Plan(w, c, f, a) ==
  [write |-> w, capturePrior |-> c, forceBackup |-> f, wasAbsent |-> a]

Fresh == Plan(TRUE, FALSE, FALSE, TRUE)
Upgrade == Plan(TRUE, TRUE, FALSE, FALSE)
Forced == Plan(TRUE, TRUE, TRUE, FALSE)
Current == Plan(FALSE, FALSE, FALSE, FALSE)
Blind == Plan(TRUE, FALSE, FALSE, FALSE)

\* A hook that was current when it was classified and is gone, perhaps with its
\* directory, when the transaction starts; wasAbsent is not read without a write.
Vanished == Plan(FALSE, FALSE, FALSE, TRUE)

\* Every pair of plans the installers build, a replacement without capture, and
\* a write of the settings beside a hook that vanished.
PlansClaude == [Comps -> {Fresh, Upgrade, Forced, Current}]
                 \cup {1 :> Blind @@ 2 :> Upgrade, 1 :> Vanished @@ 2 :> Upgrade}

\* For the temporal properties: one fresh, one forced write, and a write of the
\* settings alone.
PlansMixed == {1 :> Forced @@ 2 :> Fresh, 1 :> Fresh @@ 2 :> Upgrade,
               1 :> Vanished @@ 2 :> Fresh}
=============================================================================
