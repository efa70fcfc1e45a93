SPECIFICATION SpecStorage
CHECK_DEADLOCK FALSE
INVARIANTS FatBuffersAreTrue FatNamesAreKept  FatFormatMounts  
