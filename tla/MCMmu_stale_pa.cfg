CONSTANTS
  PageSize = 2
  TableSize = 2
  Va <- MCVa
  Ppn <- MCPpn
  Fault <- MCFault
  Satp <- MCSatpOn
  Tables <- MCTables
  ResetPc = 0
  InstrBytes = 3
  VaSize = 21
SPECIFICATION FetchSpec
INVARIANT FetchesAtPc
