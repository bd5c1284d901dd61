\* Console output may run the network and a password is set.
SPECIFICATION Spec
CONSTANTS
  Conns = {c1, c2}
  Console = console
  NoOwner = none
  NumBanks = 2
  OutputYields = TRUE
  PasswordSet = TRUE
  MaxBoots = 1
SYMMETRY Symmetry
INVARIANT Ownership
INVARIANT AreaIsSelected
PROPERTY RunningScriptStable
