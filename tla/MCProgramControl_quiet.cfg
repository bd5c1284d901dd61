\* No telnet session is attached and no password is set.
SPECIFICATION FairSpec
CONSTANTS
  Conns = {c1, c2}
  Console = console
  NoOwner = none
  NumBanks = 2
  OutputYields = FALSE
  PasswordSet = FALSE
  MaxBoots = 1
INVARIANT Exclusion
PROPERTY StoreSpec
PROPERTY SpaceReturned
PROPERTY StopHonoured
