\* The small machine, reset while it runs.
SPECIFICATION WarmSpec
CONSTANTS
  Word <- MCWord
  Zero = 0
  Addr <- MCAddr
  PCINIT = 1
  Loc <- MCLoc
  LocOf <- MCLocOf
  AddrOf <- MCAddrOf
  Reg <- MCReg
  X0 = 0
  Instr <- MCWord
  Half <- MCHalf
  CN = 2
  Op <- MCOp
  Rd <- MCRd
  Rs1 <- MCRs1
  Rs2 <- MCRs2
  SizeOf <- MCSizeOf
  Redirect <- MCRedirect
  NextAddr <- MCNextAddr
  Target <- MCTarget
  AluFn <- MCAluFn
  DivFn <- MCDivFn
  RemFn <- MCRemFn
  MulFn <- MCMulFn
  Early <- MCEarly
  Place <- MCPlace
  Merge <- MCMerge
  Extract <- MCExtract
  NUM_INPUTS = 2
  RawLoads = FALSE
  IdleData = {0}
INVARIANT
  ResetClearsRegs
