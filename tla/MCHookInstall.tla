--------------------------- MODULE MCHookInstall ---------------------------
(***************************************************************************)
(* One installer over two slots of every kind, and two installers that     *)
(* meet in the first slot.                                                 *)
(***************************************************************************)
EXTENDS HookInstall

CONSTANTS i1, i2

TwoInstallers == {i1, i2}

FirstHooks == Kinds \ {"late", "empty"}
Free == [n \in Names |-> "free"]
Tried == {Free, [Free EXCEPT ![1] = "old"], [Free EXCEPT ![1] = "link"]}
Both(a, b) == [s \in Slots |-> IF s = 1 THEN a ELSE b]

Alone ==
  {x \in [force : {[i \in TwoInstallers |-> b] : b \in BOOLEAN},
          active : {{i1}},
          hook : {Both(a, b) : a \in FirstHooks, b \in {"foreign", "current"}},
          exec : {Both(FALSE, FALSE)}, linked : {{}, {1}},
          local : {"unset", "legacy", "other"}, shadow : BOOLEAN,
          unlisted : {{}, {1}}, restless : {{1}},
          backup : {Both(b, Free) : b \in Tried}] :
     x.shadow \/ x.unlisted # {} =>
       x.local = "legacy" /\ x.linked = {} /\ x.backup[1] = Free}

Together ==
  {x \in [force : {[i \in TwoInstallers |-> TRUE],
                   [i \in TwoInstallers |-> i = i1]},
          active : {TwoInstallers},
          hook : {Both(a, "symlink") : a \in {"absent", "current", "edited"}},
          exec : {Both(FALSE, TRUE)}, linked : {{}},
          local : {"unset", "legacy"}, shadow : {FALSE}, unlisted : {{}},
          restless : {{1}}, backup : {Both(Free, Free)}] :
     x.force[i2] => x.hook[1] = "edited" /\ x.local = "legacy"}

SomeScenes == Alone \cup Together
=============================================================================
