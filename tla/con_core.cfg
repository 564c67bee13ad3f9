SPECIFICATION FairSpec
CONSTANTS
  NoCon = NoCon
  MaxCons = 1
  MaxBlack = 1
  Tolerance = 0
  MaxTime = 1
  Stutter = 1
  GreyStutter = 1
  MaxBad = 1
  Greylist = TRUE
  Proxies = {FALSE, TRUE}
  MsgNl = FALSE
  ReplyLen = 2
  MaxAccepts = 2
  MaxInputs = 3
  MaxErrors = 1
  MaxCfgs = 1
INVARIANT TypeOK
INVARIANT DialogueInv
INVARIANT EnvelopeOwn
PROPERTY WriterMovesOn
PROPERTY ThrottlingEnds
