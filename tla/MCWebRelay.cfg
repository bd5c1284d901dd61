SPECIFICATION FairSpec
CONSTANTS
  Slots = {1, 2}
  MSS = 2
  Windows <- MCWindows
  BUF = 2
  WaitPolls = 0
  IdlePolls = 2
  UIP_MAXRTX = 1
  PasswordSet = FALSE
  OutLens <- MCOutLens
  PostLens <- MCPostLens
  Forms <- MCForms
  MaxBody = 2
  MaxConns = 2
  MaxOut = 3
  MaxRuns = 1
CHECK_DEADLOCK FALSE
INVARIANT OneHolder NothingDangles PageAsWritten FormAsPosted
PROPERTY CommandsReturn RequestsAnswered
