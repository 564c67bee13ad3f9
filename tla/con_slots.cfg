SPECIFICATION Spec
CONSTANTS
  NoCon = NoCon
  MaxCons = 2
  MaxBlack = 1
  Tolerance = 0
  MaxTime = 1
  Stutter = 1
  GreyStutter = 1
  MaxBad = 1
  Greylist = TRUE
  Proxies = {FALSE}
  MsgNl = FALSE
  ReplyLen = 2
  MaxAccepts = 3
  MaxInputs = 1
  MaxErrors = 1
  MaxCfgs = 0
 
INVARIANT CountersInv
 
