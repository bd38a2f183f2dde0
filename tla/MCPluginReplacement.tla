------------------------ MODULE MCPluginReplacement ------------------------
(***************************************************************************)
(* Three installers of one plugin and one removal of it.                   *)
(***************************************************************************)
EXTENDS PluginReplacement, TLC

CONSTANTS i1, i2, i3, u1

ThreeInstallers == {i1, i2, i3}
OneRemover == {u1}
Symmetry == Permutations(ThreeInstallers)
=============================================================================
