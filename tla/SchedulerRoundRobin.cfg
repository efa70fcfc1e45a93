SPECIFICATION FairSpec
CONSTANTS
    MAX_TASKS = 3
    Creators = {0, 1, 2}
    Sleepers = {}
    Terminators = {1, 2}
    Patient = TRUE
    MAX_SLEEP = 0
INVARIANTS SchedulerInv NoTaskLost
PROPERTIES ImplementsRoundRobin ReadyTasksRun TerminatedAreReaped
