SPECIFICATION Spec
CONSTANTS
    MAX_TASKS = 4
    Creators = {0, 1, 2, 3}
    Sleepers = {1, 2, 3}
    Terminators = {1, 2, 3}
    Patient = TRUE
    MAX_SLEEP = 3
INVARIANTS LocksBalanced ListsAreQueues ListsDisjoint FreedIsUnreachable
