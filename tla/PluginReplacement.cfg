SPECIFICATION Spec
CONSTANTS
  i1 = i1
  i2 = i2
  i3 = i3
  u1 = u1
  Installers <- ThreeInstallers
  Removers <- OneRemover
SYMMETRY Symmetry
INVARIANTS
  NothingLost
  OutcomeIsTrue
  NoLostUpdate
CHECK_DEADLOCK FALSE
