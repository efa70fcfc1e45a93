SPECIFICATION Spec
CONSTANTS
    MAX_TASKS = 4
    Creators = {0}
    Sleepers = {}
    Terminators = {1, 2, 3}
    Patient = FALSE
    MAX_SLEEP = 0
PROPERTIES AddedIsUnlinked
