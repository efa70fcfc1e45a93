SPECIFICATION Spec
CONSTANTS
  Addr = {a1, a2}
  Sizes = {2, 6, 8}
  SIZEOF_PTR = 4
  NoBlock = null
PROPERTY ReallocCopies
