SPECIFICATION SpecKernel
CHECK_DEADLOCK FALSE
INVARIANTS TableIsLive LoopsAreExact HeapAccounts CarelessIsSafe  
PROPERTY ReturnsOrHangs
