SPECIFICATION Spec
CONSTANTS
  NoCon = NoCon
  MaxCons = 1
  MaxBlack = 1
  Tolerance = 0
  MaxTime = 2
  Stutter = 1
  GreyStutter = 1
  MaxBad = 1
  Greylist = TRUE
  Proxies = {FALSE}
  MsgNl = FALSE
  ReplyLen = 2
  MaxAccepts = 2
  MaxInputs = 4
  MaxErrors = 1
  MaxCfgs = 1
INVARIANT DestinationOwn
