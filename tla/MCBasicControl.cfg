SPECIFICATION FairSpec
CONSTANTS
  Programs <- MCPrograms
  Vars <- MCVars
  Chars <- MCChars
  MaxFors = 2
  MaxGosub = 2
  MaxRepeats = 2
  MinInt <- MCMinInt
  MaxInt = 3
  InputMax = 2
  MaxTyped = 3
INVARIANTS FramesFollowTheirStatements NoStrayLine FramesAreBlocks InputIsAsTyped
PROPERTIES InputStoresTheLine DolineKeepsControl LoopsEnd
