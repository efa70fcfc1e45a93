SPECIFICATION Spec
CONSTANTS
    MAX_TASKS = 3
    Creators = {0}
    Sleepers = {1, 2}
    Terminators = {}
    Patient = TRUE
    MAX_SLEEP = 3
INVARIANTS SleepersAreListed
