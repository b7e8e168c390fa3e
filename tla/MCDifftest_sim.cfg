CONSTANTS
  WordSize <- MCWordSize
  NReg = 3
  Csr <- MCCsr
  mstatus = "mstatus"
  mepc = "mepc"
  BadCsr = "bad"
  BitOr <- MCBitOr
  BitAndNot <- MCBitAndNot
  Addr <- MCAddr
  UartLsr = 40
  CodeAddr <- MCCodeAddr
  Programs <- ForwardPrograms
  InitMem <- MCInitMem
  ResetPc = 0
  CsrReset <- MCCsrReset
  Mmio <- MCMmio
  mtvec = "mtvec"
  cycle = "cycle"
  timer = "timer"
  instret = 3074
  MretMstatus <- MCMretMstatus
SPECIFICATION DiffSpec
INVARIANTS DiffTypeOK NoFalseAlarm Lockstep
PROPERTY SimulationEnds
CHECK_DEADLOCK FALSE
