CONSTANTS
  WordSize <- MCWordSize
  NReg = 3
  Csr <- MCCsr
  mstatus = "mstatus"
  mepc = "mepc"
  BadCsr = "bad"
  BitOr <- MCBitOr
  BitAndNot <- MCBitAndNot
  Addr <- MCAddr
  UartLsr = 40
  CodeAddr <- MCCodeAddr
  Programs <- CorePrograms
  InitMem <- MCInitMem
  ResetPc = 0
  CsrReset <- MCCsrReset
SPECIFICATION SafeSpec
INVARIANTS TypeOK CommitChain JumpShadowEmpty AmoTravelsAlone OperandsFresh
PROPERTY ImplementsIsa
CHECK_DEADLOCK FALSE
