SPECIFICATION Spec
CONSTANTS Blocks = {2}
 maxlen = 12
 TagMax = 2
 MaxTrans = 4
 MaxCrash = 1
 FreeModified = FALSE
 AbortFrees = FALSE
 AnyCrash = FALSE
 Restarts = 1
INVARIANTS RecoversCommitted ReadsAreCurrent NeverHung
CHECK_DEADLOCK FALSE
PROPERTY IsAtomicStore
