\* A bus whose idle data lines may look like a multiplication or a division.
SPECIFICATION Spec
CONSTANTS
  Word <- MCWord
  Zero = 0
  Addr <- MCAddr
  PCINIT = 1
  Loc <- MCLoc
  LocOf <- MCLocOf
  AddrOf <- MCAddrOf
  Reg <- MCReg
  X0 = 0
  Instr <- MCWord
  Half <- MCHalf
  CN = 2
  Op <- MCOp
  Rd <- MCRd
  Rs1 <- MCRs1
  Rs2 <- MCRs2
  SizeOf <- MCSizeOf
  Redirect <- MCRedirect
  NextAddr <- MCNextAddr
  Target <- MCTarget
  AluFn <- MCAluFn
  DivFn <- MCDivFn
  RemFn <- MCRemFn
  MulFn <- MCMulFn
  Early <- MCEarly
  Place <- MCPlace
  Merge <- MCMerge
  Extract <- MCExtract
  NUM_INPUTS = 2
  RawLoads = FALSE
  IdleData = {0, 4, 5, 8}
PROPERTY
  UnitsStartOnData
