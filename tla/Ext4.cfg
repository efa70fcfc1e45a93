SPECIFICATION SpecExt4
INVARIANTS
   AllocatorsAreExact 
        
PROPERTY CacheFlushes
CHECK_DEADLOCK FALSE
