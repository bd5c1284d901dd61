\* The promise of Introduction.md:71 with a telnet session attached.
SPECIFICATION Spec
CONSTANTS
  Conns = {c1, c2}
  Console = console
  NoOwner = none
  NumBanks = 1
  OutputYields = TRUE
  PasswordSet = FALSE
  MaxBoots = 0
INVARIANT Exclusion
