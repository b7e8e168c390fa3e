CONSTANTS
  UThread = {"u1", "u2"}
  KThread = {"boot", "k"}
  boot = "boot"
  Code <- MCCode
  AsOf <- MCAsOf
  Space = {"as1", "as2"}
  Va = {"va", "vb"}
  Pa = {"pa"}
  Prot = {TRUE, FALSE}
  Maps <- MCMaps
  Irq = {"TIMER"}
  Null = "null"
SPECIFICATION Spec
INVARIANTS WindowIsSpace OwnStack ListsEnd
PROPERTIES ImplementsTasks OsComesBack
CHECK_DEADLOCK FALSE
