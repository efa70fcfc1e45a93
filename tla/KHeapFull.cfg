SPECIFICATION Spec
CONSTANTS
  LAST = 3
  BLOCK_SIZE = 2
  total_region_size_g = 8
  Sizes = {1, 3, 8}
  Tasks = {t1}
INVARIANT SearchReturns
