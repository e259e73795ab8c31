SPECIFICATION Spec
CONSTANTS
    Photos = {1}
    NoPhoto = 0
    Workers = {v, w}
    NoWorker = NoWorker
    Sizes = {1, 2}
    MaxFaults = 2
INVARIANTS HandledIsDone
CHECK_DEADLOCK FALSE
