CONSTANTS
  CpuUnits = 2
  MemUnits = 2
  Value = {0, 1}
SPECIFICATION Spec
INVARIANTS TypeOK RestoreExact FailedRestoreIsPrefix
