CONSTANTS
  WordSize <- MCWordSize
  NReg = 3
  Csr <- MCCsr
  mstatus = "mstatus"
  mepc = "mepc"
  BadCsr = "bad"
  BitOr <- MCBitOr
  BitAndNot <- MCBitAndNot
  Addr <- MCAddr
  UartLsr = 40
  CodeAddr <- MCCodeAddr
  Programs <- MenuPrograms
  InitMem <- MCInitMem
  ResetPc = 0
  CsrReset <- MCCsrReset
SPECIFICATION RvSpec
INVARIANT ValidBitsAgree
PROPERTIES ImplementsIsa CommitsGoOn
CHECK_DEADLOCK FALSE
