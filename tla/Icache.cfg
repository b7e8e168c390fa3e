CONSTANTS
  N = 12
  L = 2
  num_sets = 2
  Stores = {1}
SPECIFICATION Spec
INVARIANTS TypeOK WaysDisjoint
PROPERTY ImplementsFetchUnit
