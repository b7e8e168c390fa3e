CONSTANTS
  Page <- MCPage
  Kpt = "kpt"
  KTab <- MCKTab
  Index <- MCIndex
  KDir <- MCKDir
  Dir <- MCDir
  Va <- MCVa
  Pa = {"pa1"}
  Prot = {TRUE}
  Space = {"as1", "as2"}
  UThread = {"u1", "u2"}
  KThread = {"boot", "k"}
  boot = "boot"
  AsOf <- MCAsOf
  Null = "null"
  Pick <- MCPick
SPECIFICATION Spec
INVARIANTS PagesOwnedOnce KernelMapped
PROPERTY ImplementsAddrSpace
CHECK_DEADLOCK FALSE
